---------------------------- MODULE Spec2Model ----------------------------
(***************************************************************************)
(* A model of echo-binder: Binder.Bind and its five section binders, the   *)
(* schema flattener getStructFields and the string coercion                *)
(* setWithProperType.                                                      *)
(*                                                                         *)
(* Go types are records [kind |-> ...]; Go values are records [k |-> ...]. *)
(* Raw request strings are sequences of one-character strings, so that     *)
(* parsing is computed character by character.  Identifiers (field names,  *)
(* tags, keys) are only ever compared, and are TLA+ strings.               *)
(***************************************************************************)
EXTENDS Integers, Sequences, FiniteSets, TLC

VARIABLES
    binder,         \* the Binder: its callEchoDefaultBinderOnError flag and validator
    pc,             \* where Bind is: "idle", "fields", "after", "validate", "done"
    target,         \* what was passed as i: "nil", "value", "ptrOther", "ptrStruct", "nilPtrStruct"
    structType,     \* the record type i points to
    structValue,    \* the record i points to, mutated in place
    before,         \* the record as it was when Bind was called
    c,              \* the echo.Context: the request
    idx,            \* the loop index of Bind (1-based)
    calledHandler,  \* Bind's local flag
    result,         \* what Bind returned
    log             \* the collaborators called so far, in order

vars == <<binder, pc, target, structType, structValue, before, c, idx,
          calledHandler, result, log>>

----------------------------------------------------------------------------
(* Bounds of the model *)

MaxParams == 2      \* path parameters of one request
MaxKeys == 2        \* distinct keys of one query string, form or header set
MaxVals == 2        \* values of one query or form key
MaxRepeatKeys == 1  \* keys per source of a request that is bound twice

----------------------------------------------------------------------------
(* Section names and tags *)

pathField == "Path"
queryField == "Query"
bodyField == "Body"
formField == "Form"
headerField == "Header"
bodySentFields == "BodySentFields"
structTypeString == "struct"
lookupTypeString == "echo_binder.RecursiveLookupTable"
ExclusionTag == "-"

\* the keys of the fieldHandlers map
fieldHandlers == {pathField, queryField, bodyField, formField, headerField}

----------------------------------------------------------------------------
(* Go types *)

TString == [kind |-> "string"]
TBool == [kind |-> "bool"]
TInt(b) == [kind |-> "int", bits |-> b]
TUint(b) == [kind |-> "uint", bits |-> b]
TFloat(b) == [kind |-> "float", bits |-> b]
TPtr(t) == [kind |-> "ptr", elem |-> t]
TSlice(t) == [kind |-> "slice", elem |-> t]
TStruct(fs) == [kind |-> "struct", fields |-> fs]
TLookup == [kind |-> "map", name |-> lookupTypeString]

\* a struct field: its name, type, `binder` tag, `json` tag, `form` tag,
\* whether it is embedded, whether its name is exported, whether it is
\* `validate:"required"`
Fld(n, t) ==
    [Name |-> n, Type |-> t, Tag |-> "", Json |-> "", Form |-> "", Anonymous |-> FALSE,
     Exported |-> TRUE, Required |-> FALSE]
Tagged(n, t, tag) == [Fld(n, t) EXCEPT !.Tag = tag]
JsonFld(n, t, j) == [Fld(n, t) EXCEPT !.Json = j]
Embedded(n, t, exp) == [Fld(n, t) EXCEPT !.Anonymous = TRUE, !.Exported = exp]
Unexported(n, t) == [Fld(n, t) EXCEPT !.Exported = FALSE]
RequiredFld(n, t) == [Fld(n, t) EXCEPT !.Required = TRUE]

----------------------------------------------------------------------------
(* Go values *)

Nil == [k |-> "nil"]
PtrTo(v) == [k |-> "ptr", p |-> v]
StrV(s) == [k |-> "string", s |-> s]
BoolV(b) == [k |-> "bool", b |-> b]
\* an integer is its sign and its decimal digits without leading zeros
NumV(neg, ds) == [k |-> "num", neg |-> neg, digits |-> ds]
\* a float is its sign, integer digits and fraction digits, both stripped
FloatV(neg, ds, fr) == [k |-> "float", neg |-> neg, digits |-> ds, frac |-> fr]
SliceV(l) == [k |-> "slice", l |-> l]
StructV(f) == [k |-> "struct", f |-> f]
MapV(m) == [k |-> "map", m |-> m]


RECURSIVE Zero(_)
Zero(T) ==
    CASE T.kind = "string" -> StrV(<<>>)
      [] T.kind = "bool" -> BoolV(FALSE)
      [] T.kind \in {"int", "uint"} -> NumV(FALSE, <<"0">>)
      [] T.kind = "float" -> FloatV(FALSE, <<"0">>, <<>>)
      [] T.kind = "ptr" -> Nil
      [] T.kind = "slice" -> Nil
      [] T.kind = "map" -> Nil
      [] T.kind = "struct" ->
            StructV([i \in 1..Len(T.fields) |-> Zero(T.fields[i].Type)])

\* a value the caller stored before Bind: every leaf differs from what any
\* request can produce; with `deep`, pointers to records are allocated too
OldStr == <<"o", "l", "d">>
RECURSIVE Preset(_, _)
Preset(T, deep) ==
    CASE T.kind = "string" -> StrV(OldStr)
      [] T.kind = "bool" -> BoolV(TRUE)
      [] T.kind \in {"int", "uint"} -> NumV(FALSE, <<"7">>)
      [] T.kind = "float" -> FloatV(FALSE, <<"7">>, <<"5">>)
      [] T.kind = "ptr" ->
            IF T.elem.kind = "struct" /\ ~deep THEN Nil
            ELSE PtrTo(Preset(T.elem, deep))
      [] T.kind = "slice" -> SliceV(<<Preset(T.elem, deep), Preset(T.elem, deep)>>)
      [] T.kind = "map" -> Nil
      [] T.kind = "struct" ->
            StructV([i \in 1..Len(T.fields) |-> Preset(T.fields[i].Type, deep)])

----------------------------------------------------------------------------
(* Errors.  code 0 is a plain Go error; code 400/500 is an *echo.HTTPError  *)
(* whose chain of internal errors is the *echo.HTTPErrors of the codes in  *)
(* `inner`, outermost first, and then the plain error of the same kind.    *)

Err(kind, location, param) ==
    [code |-> 0, inner |-> <<>>, kind |-> kind, location |-> location, param |-> param]
NoErr == Err("nil", "", "")

errorInvalidType == Err("InvalidType", "", "")
errorInvalidAnonymousField == Err("InvalidAnonymousField", "", "")
getInvalidTypeAtLocationError(location, requiredType) ==
    Err("InvalidTypeAtLocation", location, requiredType)
getMissingParamAtLocationError(location, param) ==
    Err("MissingParam", location, param)
getNotSettableParamAtLocationError(location, param) ==
    Err("NotSettable", location, param)
getUnsupportedHttpMethodError(location, method) ==
    Err("UnsupportedMethod", location, method)
getInvalidAnonymousFieldError(location) ==
    Err("InvalidAnonymousField", location, "")

\* echo.NewHTTPError(code, err.Error()).SetInternal(err)
NewHTTPError(code, err) ==
    [err EXCEPT !.code = code, !.inner = IF err.code = 0 THEN @ ELSE <<err.code>> \o @]
\* a faulty badRequestError, which returns an *echo.HTTPError as it is:
\* SingleClassification does not hold of it
badRequestErrorKeepingCode(err) == IF err.code = 0 THEN NewHTTPError(400, err) ELSE err

badRequestError(err) == NewHTTPError(400, err)
internalServerError(err) == NewHTTPError(500, err)

----------------------------------------------------------------------------
(* strconv, as far as the coercion uses it: base 10, no underscores.       *)

DigitChars == <<"0", "1", "2", "3", "4", "5", "6", "7", "8", "9">>
DigitVal(ch) == (CHOOSE i \in 1..10 : DigitChars[i] = ch) - 1
AllDigits(s) == \A i \in 1..Len(s) : \E d \in 1..10 : DigitChars[d] = s[i]

RECURSIVE StripZeros(_)
StripZeros(ds) ==
    IF Len(ds) > 1 /\ Head(ds) = "0" THEN StripZeros(Tail(ds)) ELSE ds

RECURSIVE StripTrailingZeros(_)
StripTrailingZeros(ds) ==
    IF Len(ds) > 0 /\ ds[Len(ds)] = "0"
    THEN StripTrailingZeros(SubSeq(ds, 1, Len(ds) - 1)) ELSE ds

\* a < b for decimal digit strings without leading zeros
RECURSIVE LexLess(_, _)
LexLess(a, b) ==
    IF a = <<>> THEN FALSE
    ELSE IF DigitVal(Head(a)) # DigitVal(Head(b))
         THEN DigitVal(Head(a)) < DigitVal(Head(b))
         ELSE LexLess(Tail(a), Tail(b))
DigitsLess(a, b) ==
    \/ Len(a) < Len(b)
    \/ Len(a) = Len(b) /\ LexLess(a, b)

\* 2^bits - 1 and 2^(bits-1), as digit strings; bitSize 0 is the 64-bit int
MaxUintDigits(bits) ==
    CASE bits = 8 -> <<"2", "5", "5">>
      [] bits = 16 -> <<"6", "5", "5", "3", "5">>
      [] bits = 32 -> <<"4", "2", "9", "4", "9", "6", "7", "2", "9", "5">>
      [] OTHER -> <<"1", "8", "4", "4", "6", "7", "4", "4", "0", "7", "3",
                    "7", "0", "9", "5", "5", "1", "6", "1", "5">>
IntCutoffDigits(bits) ==
    CASE bits = 8 -> <<"1", "2", "8">>
      [] bits = 16 -> <<"3", "2", "7", "6", "8">>
      [] bits = 32 -> <<"2", "1", "4", "7", "4", "8", "3", "6", "4", "8">>
      [] OTHER -> <<"9", "2", "2", "3", "3", "7", "2", "0", "3", "6", "8",
                    "5", "4", "7", "7", "5", "8", "0", "8">>

errSyntax == Err("Coercion", "", "invalid syntax")
errRange == Err("Coercion", "", "value out of range")

\* strconv.ParseUint(s, 10, bitSize)
ParseUint(s, bitSize) ==
    IF s = <<>> \/ ~AllDigits(s) THEN [err |-> errSyntax, v |-> NumV(FALSE, <<"0">>)]
    ELSE LET ds == StripZeros(s) IN
         IF DigitsLess(MaxUintDigits(bitSize), ds)
         THEN [err |-> errRange, v |-> NumV(FALSE, MaxUintDigits(bitSize))]
         ELSE [err |-> NoErr, v |-> NumV(FALSE, ds)]

\* strconv.ParseInt(s, 10, bitSize)
ParseInt(s, bitSize) ==
    IF s = <<>> THEN [err |-> errSyntax, v |-> NumV(FALSE, <<"0">>)]
    ELSE LET neg == Head(s) = "-"
             rest == IF Head(s) \in {"+", "-"} THEN Tail(s) ELSE s
             un == ParseUint(rest, 64)
             cutoff == IntCutoffDigits(bitSize)
         IN  IF un.err = errSyntax THEN [err |-> errSyntax, v |-> NumV(FALSE, <<"0">>)]
             ELSE IF un.err = errRange THEN [err |-> errRange, v |-> NumV(FALSE, <<"0">>)]
             ELSE IF ~neg /\ ~DigitsLess(un.v.digits, cutoff)
                  THEN [err |-> errRange, v |-> NumV(FALSE, <<"0">>)]
             ELSE IF neg /\ DigitsLess(cutoff, un.v.digits)
                  THEN [err |-> errRange, v |-> NumV(FALSE, <<"0">>)]
             ELSE [err |-> NoErr,
                   v |-> NumV(neg /\ un.v.digits # <<"0">>, un.v.digits)]

\* strconv.ParseBool
ParseBool(s) ==
    IF s \in {<<"1">>, <<"t">>, <<"T">>, <<"T", "R", "U", "E">>,
              <<"t", "r", "u", "e">>, <<"T", "r", "u", "e">>}
    THEN [err |-> NoErr, v |-> BoolV(TRUE)]
    ELSE IF s \in {<<"0">>, <<"f">>, <<"F">>, <<"F", "A", "L", "S", "E">>,
                   <<"f", "a", "l", "s", "e">>, <<"F", "a", "l", "s", "e">>}
    THEN [err |-> NoErr, v |-> BoolV(FALSE)]
    ELSE [err |-> errSyntax, v |-> BoolV(FALSE)]

\* strconv.ParseFloat for plain decimals [sign] digits [. digits]; the
\* request strings of the model hold no exponent, hexadecimal, inf or nan
DotAt(s) == IF \E i \in 1..Len(s) : s[i] = "."
            THEN CHOOSE i \in 1..Len(s) : s[i] = "." /\ \A j \in 1..(i - 1) : s[j] # "."
            ELSE 0
ParseFloat(s, bitSize) ==
    LET neg == s # <<>> /\ Head(s) = "-"
        rest == IF s # <<>> /\ Head(s) \in {"+", "-"} THEN Tail(s) ELSE s
        dot == DotAt(rest)
        ip == IF dot = 0 THEN rest ELSE SubSeq(rest, 1, dot - 1)
        fp == IF dot = 0 THEN <<>> ELSE SubSeq(rest, dot + 1, Len(rest))
    IN  IF Len(ip) + Len(fp) = 0 \/ ~AllDigits(ip) \/ ~AllDigits(fp)
        THEN [err |-> errSyntax, v |-> FloatV(FALSE, <<"0">>, <<>>)]
        ELSE [err |-> NoErr,
              v |-> FloatV(neg, StripZeros(IF ip = <<>> THEN <<"0">> ELSE ip),
                           StripTrailingZeros(fp))]

----------------------------------------------------------------------------
(* Coercion of one string into one slot.  Every operator returns the error *)
(* and the slot's value afterwards.                                        *)

\* the slot is assigned only when the parse succeeded
Parsed(r, field) == [err |-> r.err, v |-> IF r.err = NoErr THEN r.v ELSE field]

setIntFieldWide(value, bitSize, field) ==
    Parsed(ParseInt(IF value = <<>> THEN <<"0">> ELSE value, 64), field)

setIntField(value, bitSize, field) ==
    Parsed(ParseInt(IF value = <<>> THEN <<"0">> ELSE value, bitSize), field)

setUintField(value, bitSize, field) ==
    Parsed(ParseUint(IF value = <<>> THEN <<"0">> ELSE value, bitSize), field)

setBoolField(value, field) ==
    Parsed(ParseBool(IF value = <<>> THEN <<"f", "a", "l", "s", "e">> ELSE value), field)

setFloatField(value, bitSize, field) ==
    Parsed(ParseFloat(IF value = <<>> THEN <<"0", ".", "0">> ELSE value, bitSize), field)

\* no type of the model implements echo.BindUnmarshaler or
\* encoding.TextUnmarshaler: the hook is looked for and not found
unmarshalFieldNonPtr(T, value, field) ==
    [ok |-> FALSE, err |-> NoErr, v |-> field]

\* a nil pointer is allocated before the hook is looked for
unmarshalFieldPtr(T, value, field) ==
    LET alloc == IF field = Nil THEN PtrTo(Zero(T.elem)) ELSE field
        r == unmarshalFieldNonPtr(T.elem, value, alloc.p)
    IN  [ok |-> r.ok, err |-> r.err, v |-> PtrTo(r.v)]

unmarshalField(T, value, field) ==
    IF T.kind = "ptr" THEN unmarshalFieldPtr(T, value, field)
    ELSE unmarshalFieldNonPtr(T, value, field)

RECURSIVE setWithProperType(_, _, _)
setWithProperType(T, val, structField) ==
    LET um == unmarshalField(T, val, structField) IN
    IF um.ok THEN [err |-> um.err, v |-> um.v]
    ELSE CASE T.kind = "ptr" ->
                LET r == setWithProperType(T.elem, val, um.v.p)
                IN  [err |-> r.err, v |-> PtrTo(r.v)]
           [] T.kind = "int" -> setIntField(val, T.bits, um.v)
           [] T.kind = "uint" -> setUintField(val, T.bits, um.v)
           [] T.kind = "bool" -> setBoolField(val, um.v)
           [] T.kind = "float" -> setFloatField(val, T.bits, um.v)
           [] T.kind = "string" -> [err |-> NoErr, v |-> StrV(val)]
           [] OTHER -> [err |-> Err("Coercion", "", "unknown type"), v |-> um.v]

----------------------------------------------------------------------------
(* Slots.  A slot is found from the section's value by a path of field     *)
(* indexes; a pointer met on the way is followed.                          *)

Deref(v) == IF v.k = "ptr" THEN v.p ELSE v

RECURSIVE GetAt(_, _)
GetAt(v, path) ==
    IF path = <<>> THEN v ELSE GetAt(Deref(v).f[Head(path)], Tail(path))

RECURSIVE SetAt(_, _, _)
SetAt(v, path, nv) ==
    IF path = <<>> THEN nv
    ELSE LET s == Deref(v)
             s2 == StructV([s.f EXCEPT ![Head(path)] = SetAt(@, Tail(path), nv)])
         IN  IF v.k = "ptr" THEN PtrTo(s2) ELSE s2

\* the structFieldData of one leaf: Value is the path and the reflect flags
structFieldData(name, type, path, canSet) ==
    [FieldName |-> name, Type |-> type, path |-> path, CanSet |-> canSet]


GsfResult(status, err, fields, v) ==
    [status |-> status, err |-> err, fields |-> fields, v |-> v]

(***************************************************************************)
(* getStructFields(structField): the flattened identifier -> slot mapping  *)
(* of a Value of type T holding v; `ro` says the Value was reached through *)
(* an unexported non-embedded field (reflect's sticky read-only flag).     *)
(* status is "ok", "err" (an error was returned) or "panic"; v is the      *)
(* value afterwards, with the pointers the walk allocated.                 *)
(***************************************************************************)
RECURSIVE getStructFields(_, _, _)
RECURSIVE getStructFieldsFrom(_, _, _, _, _)

\* a faulty addLeaf, which takes the field's name as identifier whatever
\* its tag: KeyMatching does not hold of it
addLeafByName(ft, i, fieldRO, fields) ==
    IF ft.Tag = ExclusionTag THEN fields
    ELSE (ft.Name :> structFieldData(ft.Name, ft.Type, <<i>>, ~fieldRO)) @@ fields

\* a faulty addLeaf, which keeps the slot an identifier already has:
\* IdentifierCollisions does not hold of it
addLeafKeepingFirst(ft, i, fieldRO, fields) ==
    LET identifier == IF ft.Tag = "" THEN ft.Name ELSE ft.Tag IN
    IF identifier = ExclusionTag THEN fields
    ELSE fields @@ (identifier :> structFieldData(ft.Name, ft.Type, <<i>>, ~fieldRO))

\* one leaf field: its identifier is the tag, or the name; "-" drops it
addLeaf(ft, i, fieldRO, fields) ==
    LET identifier == IF ft.Tag = "" THEN ft.Name ELSE ft.Tag IN
    IF identifier = ExclusionTag THEN fields
    ELSE (identifier :> structFieldData(ft.Name, ft.Type, <<i>>, ~fieldRO)) @@ fields

getStructFieldsFrom(T, v, ro, i, fields) ==
    IF i > Len(T.fields) THEN GsfResult("ok", NoErr, fields, v)
    ELSE
    LET ft == T.fields[i]
        fv == v.f[i]
        \* fieldStruct cannot be set; what the fields below it inherit
        fieldRO == ro \/ ~ft.Exported
        sticky == ro \/ (~ft.Exported /\ ~ft.Anonymous)
        isPointer == ft.Type.kind = "ptr"
        kind == IF isPointer THEN ft.Type.elem.kind ELSE ft.Type.kind
    IN
    IF ft.Anonymous /\ kind # "struct"
    THEN GsfResult("err", errorInvalidAnonymousField, <<>>, v)
    ELSE IF kind = "struct" THEN
        IF isPointer /\ fv = Nil /\ fieldRO
        THEN GsfResult("panic", NoErr, <<>>, v)     \* Set through an unexported field
        ELSE
        LET alloc == isPointer /\ fv = Nil
            \* a nil pointer is allocated and followed; a non-nil one is not followed
            sub == IF alloc THEN getStructFields(ft.Type.elem, Zero(ft.Type.elem), sticky)
                   ELSE getStructFields(ft.Type, fv, sticky)
            nfv == IF alloc THEN PtrTo(sub.v) ELSE sub.v
            nv == StructV([v.f EXCEPT ![i] = nfv])
        IN  IF sub.status # "ok" THEN GsfResult(sub.status, sub.err, <<>>, nv)
            ELSE getStructFieldsFrom(T, nv, ro, i + 1,
                                     [id \in DOMAIN sub.fields |->
                                        [sub.fields[id] EXCEPT !.path = <<i>> \o @]]
                                         @@ fields)
    ELSE getStructFieldsFrom(T, v, ro, i + 1, addLeaf(ft, i, fieldRO, fields))

\* Type().NumField() panics unless the Value is a struct
getStructFields(T, v, ro) ==
    IF T.kind # "struct" THEN GsfResult("panic", NoErr, <<>>, v)
    ELSE getStructFieldsFrom(T, v, ro, 1, <<>>)

----------------------------------------------------------------------------
(* The section binders.  Each takes the request, the record's type and     *)
(* value and the index of the section's field, and returns the set of its  *)
(* possible outcomes [status, err, v]: status "ok", "err" or "panic", the  *)
(* error returned, and the record's value afterwards.  A binder that       *)
(* ranges over a Go map has one outcome per iteration order.               *)

Outcome(status, err, v) == [status |-> status, err |-> err, v |-> v]

WithSection(structValue_, i, sv) == StructV([structValue_.f EXCEPT ![i] = sv])

\* the orders in which `range` may visit the keys S
Orders(S) ==
    {o \in [1..Cardinality(S) -> S] : \A i, j \in DOMAIN o : i # j => o[i] # o[j]}


MIMEApplicationJSON == "application/json"
MIMEApplicationXML == "application/xml"
MIMETextXML == "text/xml"
MIMEApplicationForm == "application/x-www-form-urlencoded"
MIMEMultipartForm == "multipart/form-data"

\* the slot at `path` of the section after a coercion with result r, and
\* the outcome when the coercion failed
Stored(sv, path, r) == SetAt(sv, path, r.v)
Failed(r, sv) == Outcome("err", badRequestError(r.err), sv)

\* the section binder's outcome r, seen from the record
InRecord(sValue, i, r) == Outcome(r.status, r.err, WithSection(sValue, i, r.v))

RECURSIVE bindPathFrom(_, _, _, _, _)
\* a faulty bindPathFrom, which passes over a name without a slot:
\* PathBinding does not hold of it
bindPathFromLenient(names, values, n, fields, sv) ==
    IF n > Len(names) THEN {Outcome("ok", NoErr, sv)}
    ELSE IF names[n] \notin DOMAIN fields \/ ~fields[names[n]].CanSet
    THEN bindPathFrom(names, values, n + 1, fields, sv)
    ELSE UNION {IF r.err # NoErr THEN {Failed(r, Stored(sv, fields[names[n]].path, r))}
                ELSE bindPathFrom(names, values, n + 1, fields,
                                  Stored(sv, fields[names[n]].path, r)) :
                  r \in {setWithProperType(fields[names[n]].Type, values[n],
                                           GetAt(sv, fields[names[n]].path))}}

bindPathFrom(names, values, n, fields, sv) ==
    IF n > Len(names) THEN {Outcome("ok", NoErr, sv)}
    ELSE IF names[n] \notin DOMAIN fields
    THEN {Outcome("err", badRequestError(getMissingParamAtLocationError(pathField, names[n])),
                  sv)}
    ELSE IF ~fields[names[n]].CanSet
    THEN {Outcome("err",
                  badRequestError(getNotSettableParamAtLocationError(pathField, names[n])),
                  sv)}
    ELSE UNION {IF r.err # NoErr THEN {Failed(r, Stored(sv, fields[names[n]].path, r))}
                ELSE bindPathFrom(names, values, n + 1, fields,
                                  Stored(sv, fields[names[n]].path, r)) :
                  r \in {setWithProperType(fields[names[n]].Type, values[n],
                                           GetAt(sv, fields[names[n]].path))}}

\* a faulty bindPath, which binds into a fresh section: SectionFrame does
\* not hold of it
bindPathFresh(cx, sType, sValue, i) ==
    UNION {IF fl.status = "panic" THEN {Outcome("panic", NoErr, WithSection(sValue, i, fl.v))}
           ELSE IF fl.status = "err"
           THEN {Outcome("err", badRequestError(fl.err), WithSection(sValue, i, fl.v))}
           ELSE {InRecord(sValue, i, r) :
                   r \in bindPathFrom(cx.ParamNames, cx.ParamValues, 1, fl.fields, fl.v)} :
             fl \in {getStructFields(sType.fields[i].Type, Zero(sType.fields[i].Type), FALSE)}}

bindPath(cx, sType, sValue, i) ==
    UNION {IF fl.status = "panic" THEN {Outcome("panic", NoErr, WithSection(sValue, i, fl.v))}
           ELSE IF fl.status = "err"
           THEN {Outcome("err", badRequestError(fl.err), WithSection(sValue, i, fl.v))}
           ELSE {InRecord(sValue, i, r) :
                   r \in bindPathFrom(cx.ParamNames, cx.ParamValues, 1, fl.fields, fl.v)} :
             fl \in {getStructFields(sType.fields[i].Type, sValue.f[i], FALSE)}}

\* the slice built from the values of one key: MakeSlice, then one coercion
\* per element, stopping at the first error
RECURSIVE buildSlice(_, _, _, _)
\* a faulty setSliceElem, which puts the element in front: ListBinding
\* does not hold of it
setSliceElemInFront(elemType, values, n, slice, r) ==
    IF r.err # NoErr THEN [err |-> r.err, v |-> SliceV(slice)]
    ELSE buildSlice(elemType, values, n + 1, <<r.v>> \o slice)

setSliceElem(elemType, values, n, slice, r) ==
    IF r.err # NoErr THEN [err |-> r.err, v |-> SliceV(slice)]
    ELSE buildSlice(elemType, values, n + 1, Append(slice, r.v))

buildSlice(elemType, values, n, slice) ==
    IF n > Len(values) THEN [err |-> NoErr, v |-> SliceV(slice)]
    ELSE setSliceElem(elemType, values, n, slice,
                    setWithProperType(elemType, values[n], Zero(elemType)))

\* the loop of bindQuery and bindForm over the source's keys, visited in
\* `order`; a key without a slot is skipped
RECURSIVE bindValuesFrom(_, _, _, _, _, _)
\* a faulty bindValuesFrom, which coerces the last value of a key into a
\* scalar slot: ScalarBinding does not hold of it
bindValuesFromLast(location, params, order, n, fields, sv) ==
    IF n > Len(order) THEN {Outcome("ok", NoErr, sv)}
    ELSE IF order[n] \notin DOMAIN fields
    THEN bindValuesFrom(location, params, order, n + 1, fields, sv)
    ELSE IF ~fields[order[n]].CanSet
    THEN {Outcome("err",
                  badRequestError(getNotSettableParamAtLocationError(location, order[n])),
                  sv)}
    ELSE IF fields[order[n]].Type.kind = "slice"
    THEN UNION {IF r.err # NoErr THEN {Failed(r, sv)}
                ELSE bindValuesFrom(location, params, order, n + 1, fields,
                                    Stored(sv, fields[order[n]].path, r)) :
                  r \in {buildSlice(fields[order[n]].Type.elem, params[order[n]], 1, <<>>)}}
    ELSE UNION {IF r.err # NoErr THEN {Failed(r, Stored(sv, fields[order[n]].path, r))}
                ELSE bindValuesFrom(location, params, order, n + 1, fields,
                                    Stored(sv, fields[order[n]].path, r)) :
                  r \in {setWithProperType(fields[order[n]].Type,
                                           params[order[n]][Len(params[order[n]])],
                                           GetAt(sv, fields[order[n]].path))}}

bindValuesFrom(location, params, order, n, fields, sv) ==
    IF n > Len(order) THEN {Outcome("ok", NoErr, sv)}
    ELSE IF order[n] \notin DOMAIN fields
    THEN bindValuesFrom(location, params, order, n + 1, fields, sv)
    ELSE IF ~fields[order[n]].CanSet
    THEN {Outcome("err",
                  badRequestError(getNotSettableParamAtLocationError(location, order[n])),
                  sv)}
    ELSE IF fields[order[n]].Type.kind = "slice"
    THEN UNION {IF r.err # NoErr THEN {Failed(r, sv)}
                ELSE bindValuesFrom(location, params, order, n + 1, fields,
                                    Stored(sv, fields[order[n]].path, r)) :
                  r \in {buildSlice(fields[order[n]].Type.elem, params[order[n]], 1, <<>>)}}
    ELSE UNION {IF r.err # NoErr THEN {Failed(r, Stored(sv, fields[order[n]].path, r))}
                ELSE bindValuesFrom(location, params, order, n + 1, fields,
                                    Stored(sv, fields[order[n]].path, r)) :
                  r \in {setWithProperType(fields[order[n]].Type, params[order[n]][1],
                                           GetAt(sv, fields[order[n]].path))}}

bindQuery(cx, sType, sValue, i) ==
    IF cx.Method \notin {"GET", "DELETE", "HEAD"}
    THEN {Outcome("err", badRequestError(getUnsupportedHttpMethodError(queryField, cx.Method)),
                  sValue)}
    ELSE
    UNION {IF fl.status = "panic" THEN {Outcome("panic", NoErr, WithSection(sValue, i, fl.v))}
           ELSE IF fl.status = "err"
           THEN {Outcome("err", badRequestError(getInvalidAnonymousFieldError(pathField)),
                         WithSection(sValue, i, fl.v))}
           ELSE {InRecord(sValue, i, r) :
                   r \in UNION {bindValuesFrom(queryField, cx.QueryParams, order, 1,
                                               fl.fields, fl.v) :
                                  order \in Orders(DOMAIN cx.QueryParams)}} :
             fl \in {getStructFields(sType.fields[i].Type, sValue.f[i], FALSE)}}

IsFormContentType(contentType) ==
    contentType \in {MIMEApplicationForm, MIMEMultipartForm}

bindForm(cx, sType, sValue, i) ==
    IF cx.Method = "GET"
    THEN {Outcome("err", badRequestError(getUnsupportedHttpMethodError(bodyField, cx.Method)),
                  sValue)}
    ELSE IF cx.ContentLength = 0 THEN {Outcome("ok", NoErr, sValue)}
    ELSE IF ~IsFormContentType(cx.ContentType) THEN {Outcome("ok", NoErr, sValue)}
    ELSE
    UNION {IF fl.status = "panic" THEN {Outcome("panic", NoErr, WithSection(sValue, i, fl.v))}
           ELSE IF fl.status = "err"
           THEN {Outcome("err", badRequestError(getInvalidAnonymousFieldError(formField)),
                         WithSection(sValue, i, fl.v))}
           ELSE IF cx.FormErr
           THEN {Outcome("err", badRequestError(Err("FormParams", "", "")),
                         WithSection(sValue, i, fl.v))}
           ELSE {InRecord(sValue, i, r) :
                   r \in UNION {bindValuesFrom(formField, cx.FormParams, order, 1,
                                               fl.fields, fl.v) :
                                  order \in Orders(DOMAIN cx.FormParams)}} :
             fl \in {getStructFields(sType.fields[i].Type, sValue.f[i], FALSE)}}

\* textproto.CanonicalMIMEHeaderKey on the identifiers of the model
CanonicalMIMEHeaderKey(name) ==
    CASE name = "harari" -> "Harari"
      [] name = "yerushalmi" -> "Yerushalmi"
      [] name = "custom" -> "Custom"
      [] name = "name" -> "Name"
      [] name = "key1" -> "Key1"
      [] name = "key2" -> "Key2"
      [] OTHER -> name

\* http.Header.Get: the value stored under the canonical key, or ""
HeaderGet(header, name) ==
    IF CanonicalMIMEHeaderKey(name) \in DOMAIN header
    THEN header[CanonicalMIMEHeaderKey(name)] ELSE <<>>

RECURSIVE bindHeaderFrom(_, _, _, _, _)
\* a faulty bindHeaderFrom, which asks whether the slot can be set before
\* it looks at the header: HeaderBinding does not hold of it
bindHeaderFromStrict(header, order, n, fields, sv) ==
    IF n > Len(order) THEN {Outcome("ok", NoErr, sv)}
    ELSE IF ~fields[order[n]].CanSet
    THEN {Outcome("err", badRequestError(
                      getNotSettableParamAtLocationError(headerField,
                                                         fields[order[n]].FieldName)), sv)}
    ELSE bindHeaderFrom(header, order, n + 1, fields,
                        IF HeaderGet(header, order[n]) = <<>> THEN sv
                        ELSE Stored(sv, fields[order[n]].path,
                                    setWithProperType(fields[order[n]].Type,
                                                      HeaderGet(header, order[n]),
                                                      GetAt(sv, fields[order[n]].path))))

bindHeaderFrom(header, order, n, fields, sv) ==
    IF n > Len(order) THEN {Outcome("ok", NoErr, sv)}
    ELSE IF HeaderGet(header, order[n]) = <<>>
    THEN bindHeaderFrom(header, order, n + 1, fields, sv)
    ELSE IF ~fields[order[n]].CanSet
    THEN {Outcome("err", badRequestError(
                      getNotSettableParamAtLocationError(headerField,
                                                         fields[order[n]].FieldName)), sv)}
    ELSE UNION {IF r.err # NoErr THEN {Failed(r, Stored(sv, fields[order[n]].path, r))}
                ELSE bindHeaderFrom(header, order, n + 1, fields,
                                    Stored(sv, fields[order[n]].path, r)) :
                  r \in {setWithProperType(fields[order[n]].Type,
                                           HeaderGet(header, order[n]),
                                           GetAt(sv, fields[order[n]].path))}}

bindHeader(cx, sType, sValue, i) ==
    UNION {IF fl.status = "panic" THEN {Outcome("panic", NoErr, WithSection(sValue, i, fl.v))}
           ELSE IF fl.status = "err"
           THEN {Outcome("err", badRequestError(getInvalidAnonymousFieldError(headerField)),
                         WithSection(sValue, i, fl.v))}
           ELSE {InRecord(sValue, i, r) :
                   r \in UNION {bindHeaderFrom(cx.Header, order, 1, fl.fields, fl.v) :
                                  order \in Orders(DOMAIN fl.fields)}} :
             fl \in {getStructFields(sType.fields[i].Type, sValue.f[i], FALSE)}}

----------------------------------------------------------------------------
(* The body.  A payload is [format, doc]: format "json", "xml" or "other"  *)
(* says which decoder accepts the bytes, doc is the decoded document:      *)
(* [j |-> "obj", m |-> key -> doc], [j |-> "arr", l], [j |-> "str", s],    *)
(* [j |-> "num", s], [j |-> "bool", b] or [j |-> "null"].                  *)

JObj(m) == [j |-> "obj", m |-> m]
JArr(l) == [j |-> "arr", l |-> l]
JStr(s) == [j |-> "str", s |-> s]
JNum(s) == [j |-> "num", s |-> s]
JBool(b) == [j |-> "bool", b |-> b]
JNull == [j |-> "null"]

errDecode == Err("Decode", "", "")

JsonName(ft) == IF ft.Json # "" THEN ft.Json ELSE ft.Name

\* encoding/json's decoding of a document into a value of type T: a
\* mismatch is remembered as the error and decoding goes on
RECURSIVE decodeInto(_, _, _)
RECURSIVE decodeFields(_, _, _, _, _)
RECURSIVE decodeElems(_, _, _, _, _)

decodeFields(m, T, old, i, err) ==
    IF i > Len(T.fields) THEN [err |-> err, v |-> old]
    ELSE LET ft == T.fields[i] IN
         IF ~ft.Exported \/ JsonName(ft) \notin DOMAIN m
         THEN decodeFields(m, T, old, i + 1, err)
         ELSE LET r == decodeInto(m[JsonName(ft)], ft.Type, old.f[i])
              IN  decodeFields(m, T, StructV([old.f EXCEPT ![i] = r.v]), i + 1,
                               IF err = NoErr THEN r.err ELSE err)

decodeElems(l, T, n, acc, err) ==
    IF n > Len(l) THEN [err |-> err, v |-> SliceV(acc)]
    ELSE LET r == decodeInto(l[n], T, Zero(T))
         IN  decodeElems(l, T, n + 1, Append(acc, r.v), IF err = NoErr THEN r.err ELSE err)

decodeInto(doc, T, old) ==
    IF doc.j = "null"
    THEN [err |-> NoErr, v |-> IF T.kind \in {"ptr", "slice", "map"} THEN Nil ELSE old]
    ELSE
    CASE T.kind = "ptr" ->
            LET r == decodeInto(doc, T.elem, IF old = Nil THEN Zero(T.elem) ELSE old.p)
            IN  [err |-> r.err, v |-> PtrTo(r.v)]
      [] T.kind = "struct" ->
            IF doc.j = "obj" THEN decodeFields(doc.m, T, old, 1, NoErr)
            ELSE [err |-> errDecode, v |-> old]
      [] T.kind = "slice" ->
            IF doc.j = "arr" THEN decodeElems(doc.l, T.elem, 1, <<>>, NoErr)
            ELSE [err |-> errDecode, v |-> old]
      [] T.kind = "string" ->
            IF doc.j = "str" THEN [err |-> NoErr, v |-> StrV(doc.s)]
            ELSE [err |-> errDecode, v |-> old]
      [] T.kind = "bool" ->
            IF doc.j = "bool" THEN [err |-> NoErr, v |-> BoolV(doc.b)]
            ELSE [err |-> errDecode, v |-> old]
      [] T.kind = "int" ->
            IF doc.j = "num" /\ ParseInt(doc.s, T.bits).err = NoErr
            THEN [err |-> NoErr, v |-> ParseInt(doc.s, T.bits).v]
            ELSE [err |-> errDecode, v |-> old]
      [] T.kind = "uint" ->
            IF doc.j = "num" /\ ParseUint(doc.s, T.bits).err = NoErr
            THEN [err |-> NoErr, v |-> ParseUint(doc.s, T.bits).v]
            ELSE [err |-> errDecode, v |-> old]
      [] T.kind = "float" ->
            IF doc.j = "num" THEN [err |-> NoErr, v |-> ParseFloat(doc.s, T.bits).v]
            ELSE [err |-> errDecode, v |-> old]
      [] OTHER -> [err |-> errDecode, v |-> old]

\* json.Unmarshal / xml.Unmarshal of the body into the section: the bytes
\* must be of the decoder's format
Unmarshal(format, body, T, old) ==
    IF body.format # format THEN [err |-> errDecode, v |-> old]
    ELSE decodeInto(body.doc, T, old)

\* lookupTable.IntoRecursiveLookupTable: a key whose value is an object is
\* converted in turn, any other value gives the empty table
RECURSIVE IntoRecursiveLookupTable(_)
\* a faulty IntoRecursiveLookupTable, which converts the keys of the
\* payload and not what is below them: PresenceTable does not hold of it
IntoRecursiveLookupTableFlat(m) ==
    MapV([key \in DOMAIN m |-> MapV(<<>>)])

IntoRecursiveLookupTable(m) ==
    MapV([key \in DOMAIN m |->
            IF m[key].j = "obj" THEN IntoRecursiveLookupTable(m[key].m)
            ELSE MapV(<<>>)])

\* strings.Split(s, "."): the segments of a string of characters
RECURSIVE Split(_)
Split(s) ==
    IF DotAt(s) = 0 THEN <<s>>
    ELSE <<SubSeq(s, 1, DotAt(s) - 1)>> \o Split(SubSeq(s, DotAt(s) + 1, Len(s)))

\* strings.Join(keys, ".")
RECURSIVE Join(_)
Join(keys) ==
    IF keys = <<>> THEN <<>>
    ELSE IF Len(keys) = 1 THEN Head(keys)
    ELSE Head(keys) \o <<".">> \o Join(Tail(keys))

\* a string of characters as a key of a table
RECURSIVE MapKey(_)
MapKey(s) == IF s = <<>> THEN "" ELSE Head(s) \o MapKey(Tail(s))

\* RecursiveLookupTable.FieldExists
RECURSIVE FieldExists(_, _)
FieldExists(l, key) ==
    LET keys == Split(key)
        ok == l # Nil /\ MapKey(Head(keys)) \in DOMAIN l.m
    IN  IF Len(keys) = 1 \/ ~ok THEN ok
        ELSE FieldExists(l.m[MapKey(Head(keys))], Join(Tail(keys)))

FieldIndex(T, name) ==
    IF \E i \in 1..Len(T.fields) : T.fields[i].Name = name
    THEN CHOOSE i \in 1..Len(T.fields) : T.fields[i].Name = name
    ELSE 0


\* bindBody once the body is decoded with result dec: the BodySentFields
\* slot of the record, when the section is a struct
bindSentFields(cx, sType, sent, nv) ==
    IF sent = 0 THEN {Outcome("ok", NoErr, nv)}
    ELSE IF sType.fields[sent].Type.kind # "map"
    THEN {Outcome("err", badRequestError(
                      getInvalidTypeAtLocationError(bodySentFields, lookupTypeString)), nv)}
    ELSE IF ~sType.fields[sent].Exported
    THEN {Outcome("err", badRequestError(
                      getNotSettableParamAtLocationError("", bodySentFields)), nv)}
    ELSE IF cx.Body.format # "json" \/ cx.Body.doc.j \notin {"obj", "null"}
    THEN {Outcome("err", badRequestError(errDecode), nv)}
    ELSE IF sType.fields[sent].Type # TLookup
    THEN {Outcome("panic", NoErr, nv)}      \* Set with a value of another map type
    ELSE {Outcome("ok", NoErr,
                  WithSection(nv, sent,
                      IF cx.Body.doc.j = "null" THEN MapV(<<>>)
                      ELSE IntoRecursiveLookupTable(cx.Body.doc.m)))}

\* a faulty bindBody, which reads the body whatever its length:
\* ZeroLengthIsNoOp does not hold of it
bindBodyReadingAlways(cx, sType, sValue, i) ==
    IF cx.Method = "GET"
    THEN {Outcome("err", badRequestError(getUnsupportedHttpMethodError(bodyField, cx.Method)),
                  sValue)}
    ELSE IF cx.Body.format = "unreadable"
    THEN {Outcome("err", internalServerError(Err("ReadAll", "", "")), sValue)}
    ELSE IF cx.ContentLength = 0 THEN {Outcome("ok", NoErr, sValue)}
    ELSE bindSentFields(cx, sType, FieldIndex(sType, bodySentFields), sValue)

bindBody(cx, sType, sValue, i) ==
    IF cx.Method = "GET"
    THEN {Outcome("err", badRequestError(getUnsupportedHttpMethodError(bodyField, cx.Method)),
                  sValue)}
    ELSE IF cx.ContentLength = 0 THEN {Outcome("ok", NoErr, sValue)}
    ELSE IF cx.Body.format = "unreadable"
    THEN {Outcome("err", internalServerError(Err("ReadAll", "", "")), sValue)}
    ELSE
    UNION {IF dec.err # NoErr
           THEN {Outcome("err", badRequestError(dec.err), WithSection(sValue, i, dec.v))}
           ELSE IF sType.fields[i].Type.kind # "struct"
           THEN {Outcome("ok", NoErr, WithSection(sValue, i, dec.v))}
           ELSE bindSentFields(cx, sType, FieldIndex(sType, bodySentFields),
                               WithSection(sValue, i, dec.v)) :
             dec \in {IF cx.ContentType = MIMEApplicationJSON
                      THEN Unmarshal("json", cx.Body, sType.fields[i].Type, sValue.f[i])
                      ELSE IF cx.ContentType \in {MIMEApplicationXML, MIMETextXML}
                      THEN Unmarshal("xml", cx.Body, sType.fields[i].Type, sValue.f[i])
                      ELSE [err |-> NoErr, v |-> sValue.f[i]]}}

----------------------------------------------------------------------------
(* Collaborators of Bind *)

\* validator.Struct on the record: a `required` field must not hold its
\* zero value; records inside the record are validated in turn
RECURSIVE ValidStruct(_, _)
ValidStruct(T, v) ==
    \A i \in 1..Len(T.fields) :
        LET ft == T.fields[i] IN
        ft.Exported =>
            /\ ft.Required => v.f[i] # Zero(ft.Type)
            /\ ft.Type.kind = "struct" => ValidStruct(ft.Type, v.f[i])
            /\ (ft.Type.kind = "ptr" /\ ft.Type.elem.kind = "struct" /\ v.f[i] # Nil)
                   => ValidStruct(ft.Type.elem, v.f[i].p)

errValidation == Err("Validation", "", "")

\* binder.validator.Struct(i); a nil pointer is not a struct to validate
validatorStruct(tgt, T, v) ==
    IF tgt = "nilPtrStruct" THEN errValidation
    ELSE IF ValidStruct(T, v) THEN NoErr ELSE errValidation

\* what echo.DefaultBinder.Bind may return
DefaultBinderResults == {NoErr, badRequestError(Err("DefaultBinder", "", ""))}

----------------------------------------------------------------------------
(* The records and requests Bind is called with *)

NoResult == [status |-> "none", err |-> NoErr, via |-> ""]
Returned(err, via) ==
    [status |-> IF err = NoErr THEN "ok" ELSE "err", err |-> err, via |-> via]
Panicked == [status |-> "panic", err |-> NoErr, via |-> "binder"]

S3 == <<"3">>
SX == <<"x">>
RawValues == {<<>>, S3, SX}
ListValues == {S3, SX}

invalidEmbedded == TStruct(<<Embedded("string", TString, FALSE)>>)

\* the record types of the tests
pathNormalTester ==
    TStruct(<<Fld(pathField, TStruct(<<Fld("Name", TString), Fld("Id", TInt(0)),
                                       Fld("Unused", TPtr(TString))>>))>>)
pathValidEmbeddedTester ==
    TStruct(<<Fld(pathField,
                  TStruct(<<Embedded("validEmbedded",
                                     TStruct(<<Tagged("Key1", TString, "key1"),
                                               Tagged("Key2", TInt(0), "key2"),
                                               Tagged("Unbind", TString, "-")>>),
                                     FALSE)>>))>>)
nestedPathRecord ==
    TStruct(<<Fld(pathField,
                  TStruct(<<Unexported("hidden", TInt(0)),
                            Tagged("Inner", TStruct(<<Fld("A", TInt(0))>>), "-"),
                            Fld("Ref", TPtr(TStruct(<<Fld("B", TString)>>)))>>))>>)
queryTester ==
    TStruct(<<Fld(queryField, TStruct(<<Fld("Name", TString), Fld("Age", TFloat(64)),
                                        Fld("Data", TSlice(TString)),
                                        Fld("OtherData", TSlice(TInt(0)))>>))>>)
\* queryTagTester cut to its first field
taggedQueryRecord ==
    TStruct(<<Fld(queryField, TStruct(<<Tagged("Name", TString, "name")>>))>>)

excludedQueryRecord ==
    TStruct(<<Fld("Other", TStruct(<<Fld("Id", TInt(0))>>)),
              Fld(queryField, TStruct(<<Fld("Id", TInt(0)),
                                        Tagged("Unbind", TSlice(TString), "-")>>))>>)
headerTester ==
    TStruct(<<Fld(headerField,
                  TStruct(<<Embedded("embeddedHeader",
                                     TStruct(<<Tagged("Omer", TString, "harari")>>), FALSE),
                            Embedded("AnotherEmbeddedHeader",
                                     TPtr(TStruct(<<Tagged("Yaeli", TString, "yerushalmi")>>)),
                                     TRUE),
                            Fld("Name", TString),
                            Tagged("Build", TInt(0), "custom")>>))>>)
\* a Header with a field that cannot be set
unexportedHeaderRecord ==
    TStruct(<<Fld(headerField, TStruct(<<Unexported("name", TString),
                                         Tagged("Build", TInt(0), "custom")>>))>>)
validateTester ==
    TStruct(<<Fld(headerField, TStruct(<<RequiredFld("Name", TString),
                                         Fld("Version", TString)>>))>>)
formTester ==
    TStruct(<<Fld(formField, TStruct(<<Fld("Name", TString),
                                       Tagged("Age", TInt(0), "custom"),
                                       Tagged("Data", TSlice(TFloat(64)), "data")>>))>>)
bodyNormalTester ==
    TStruct(<<Fld(bodyField, TStruct(<<JsonFld("Name", TString, "name")>>)),
              Fld(headerField, TStruct(<<>>))>>)
\* a record whose BodySentFields is of the type T
sentFieldsRecord(T) ==
    TStruct(<<Fld(bodyField, TStruct(<<JsonFld("Name", TString, "name")>>)),
              Fld(bodySentFields, T)>>)
\* FormBodyExample of the README
FormBodyExample ==
    TStruct(<<Fld(bodyField,
                  TStruct(<<[Fld("Username", TString) EXCEPT !.Form = "username"],
                            [Fld("Password", TString) EXCEPT !.Form = "password"]>>))>>)
bodyDifferentType == TStruct(<<Fld(bodyField, TSlice(TString))>>)
bodyDifferentType2 == TStruct(<<Fld(bodyField, TInt(0))>>)
bodySentFieldsTester ==
    TStruct(<<Fld(bodyField,
                  TStruct(<<JsonFld("Name", TString, "name"),
                            JsonFld("Age", TInt(0), "age"),
                            JsonFld("Nested",
                                    TStruct(<<JsonFld("Field", TBool, "field"),
                                              JsonFld("AnotherNested",
                                                      TStruct(<<JsonFld("Field", TBool,
                                                                        "field")>>),
                                                      "nested")>>),
                                    "nested")>>)),
              Fld(bodySentFields, TLookup)>>)
invalidPath ==
    TStruct(<<Fld(pathField, TString), Fld(queryField, TString), Fld(formField, TInt(0)),
              Fld(headerField, TInt(0)), Fld(bodyField, TFloat(32))>>)
unhandledStructsTester ==
    TStruct(<<Fld("ShouldNotBeHandled", TStruct(<<JsonFld("Id", TInt(0), "Id")>>)),
              Fld("ShouldNotBeHandled2", TStruct(<<JsonFld("Name", TString, "Name")>>))>>)
\* one recognized section of each kind, each with one slot
allSectionsRecord ==
    TStruct(<<Fld(pathField, TStruct(<<Fld("Id", TInt(0))>>)),
              Fld(queryField, TStruct(<<Fld("Q", TInt(0))>>)),
              Fld(headerField, TStruct(<<RequiredFld("H", TString)>>)),
              Fld(formField, TStruct(<<Fld("F", TSlice(TInt(0)))>>)),
              Fld(bodyField, TStruct(<<JsonFld("Name", TString, "name")>>))>>)

\* a record whose only field is the section `name` of type T
OneSection(name, T) == TStruct(<<Fld(name, T)>>)

\* a record whose section `name` declares, in `order`, an embedded record,
\* a nested record and a field of its own that share the identifier Id
collidingRecord(name, order) ==
    OneSection(name,
               TStruct([n \in DOMAIN order |->
                           <<Embedded("Shared", TStruct(<<Fld("Id", TString)>>), TRUE),
                             Fld("Inner", TStruct(<<Fld("Id", TString)>>)),
                             Fld("Id", TString)>>[order[n]]]))

SchemaSections == {pathField, queryField, headerField, formField}

\* the record types explored with the full request bounds ...
RichShapes ==
    {pathNormalTester, pathValidEmbeddedTester, nestedPathRecord, queryTester,
     excludedQueryRecord, taggedQueryRecord, headerTester, unexportedHeaderRecord,
     validateTester, formTester,
     bodyNormalTester, bodyDifferentType, bodyDifferentType2, bodySentFieldsTester,
     FormBodyExample, unhandledStructsTester}
        \cup {sentFieldsRecord(T) :
                  T \in {TString, [kind |-> "map", name |-> "map[string]string"]}}
        \cup {OneSection(n, invalidEmbedded) : n \in SchemaSections}
        \cup {collidingRecord(n, o) : n \in SchemaSections, o \in Orders({1, 2, 3})}
        \cup {OneSection(n, TPtr(TStruct(<<Fld("Id", TInt(0))>>))) : n \in fieldHandlers}
\* ... and those explored with at most one key per source
LeanShapes ==
    {invalidPath, allSectionsRecord}
        \cup {OneSection(n, T) : n \in fieldHandlers, T \in {TString, TPtr(TInt(0))}}

\* the names and tags of the leaf fields below a section type
RECURSIVE LeafKeys(_)
LeafKeys(T) ==
    IF T.kind = "ptr" THEN LeafKeys(T.elem)
    ELSE IF T.kind # "struct" THEN {}
    ELSE UNION {LET ft == T.fields[i]
                    inner == IF ft.Type.kind = "ptr" THEN ft.Type.elem ELSE ft.Type
                IN  IF inner.kind = "struct" THEN LeafKeys(inner)
                    ELSE {ft.Name} \cup (IF ft.Tag = "" THEN {} ELSE {ft.Tag}) :
                  i \in 1..Len(T.fields)}

\* the identifiers of the leaf fields below a section type
RECURSIVE LeafIdentifiers(_)
LeafIdentifiers(T) ==
    IF T.kind = "ptr" THEN LeafIdentifiers(T.elem)
    ELSE IF T.kind # "struct" THEN {}
    ELSE UNION {LET ft == T.fields[i]
                    inner == IF ft.Type.kind = "ptr" THEN ft.Type.elem ELSE ft.Type
                IN  IF inner.kind = "struct" THEN LeafIdentifiers(inner)
                    ELSE IF ft.Tag = "" THEN {ft.Name}
                    ELSE IF ft.Tag = ExclusionTag THEN {} ELSE {ft.Tag} :
                  i \in 1..Len(T.fields)}

HasField(T, name) == T.kind = "struct" /\ FieldIndex(T, name) # 0
FieldType(T, name) == T.fields[FieldIndex(T, name)].Type

\* the keys a request may carry for the section `name` of record type T
SourceKeys(T, name, rich) ==
    \* a form may carry the `form` tag of the first field of the Body
    IF name = formField /\ ~HasField(T, name) /\ HasField(T, bodyField)
          /\ FieldType(T, bodyField).kind = "struct"
    THEN {FieldType(T, bodyField).fields[i].Form :
              i \in 1..Len(FieldType(T, bodyField).fields) \cap {1}} \ {""}
    ELSE IF ~HasField(T, name) THEN {}
    ELSE IF ~rich THEN LeafIdentifiers(FieldType(T, name))
    \* with keys that name no slot: the field names hidden by a tag, and "-".
    \* All of them as route parameters and for a section with an excluded
    \* field, one of them otherwise
    ELSE IF name = pathField \/ ExclusionTag \in LeafKeys(FieldType(T, name))
    THEN LeafKeys(FieldType(T, name))
    ELSE IF LeafKeys(FieldType(T, name)) = LeafIdentifiers(FieldType(T, name))
    THEN LeafIdentifiers(FieldType(T, name))
    ELSE LeafIdentifiers(FieldType(T, name))
            \cup {CHOOSE k \in LeafKeys(FieldType(T, name)) :
                     k \notin LeafIdentifiers(FieldType(T, name))}

Maps(keys, vals, n) == UNION {[K -> vals] : K \in {K \in SUBSET keys : Cardinality(K) <= n}}
ValueLists(n) == UNION {[1..k -> ListValues] : k \in 1..n}
ParamLists(keys, n) == UNION {[1..k -> keys \X RawValues] : k \in 0..n}

NameDoc == JObj("name" :> JStr(SX))
Payload(format, doc) == [format |-> format, doc |-> doc]
NoBody == Payload("other", JNull)
Payloads ==
    {Payload("json", NameDoc),
     Payload("json", JObj(("name" :> JStr(SX))
                            @@ ("nested" :> JObj("field" :> JBool(TRUE))))),
     Payload("json", JArr(<<JStr(SX), JStr(S3)>>)), Payload("json", JNum(S3)),
     Payload("json", JObj(("a" :> JObj(("b" :> JNum(S3))
                                         @@ ("a" :> JObj("b" :> JBool(TRUE)))))
                            @@ ("b" :> JStr(SX)) @@ ("a.b" :> JNum(S3))
                            @@ ("ab" :> JArr(<<JObj("a" :> JNull)>>)))),
     Payload("xml", NameDoc), NoBody, Payload("unreadable", JNull)}

Request(m, cl, ct, ps, q, h, f, b) ==
    [Method |-> m, ContentLength |-> cl, ContentType |-> ct,
     ParamNames |-> [i \in DOMAIN ps |-> ps[i][1]],
     ParamValues |-> [i \in DOMAIN ps |-> ps[i][2]],
     QueryParams |-> q, Header |-> h, FormParams |-> f.values, FormErr |-> f.err,
     Body |-> b]
EmptyRequest ==
    Request("GET", 0, "", <<>>, <<>>, <<>>, [err |-> FALSE, values |-> <<>>], NoBody)

\* the values the caller may pass a pointer to
InitialValues(T, rich) ==
    IF rich THEN {Zero(T), Preset(T, FALSE), Preset(T, TRUE)} ELSE {Zero(T)}

----------------------------------------------------------------------------
(* The state machine: New(), CallEchoDefaultBinderOnError and Bind, whose  *)
(* loop over the record's fields takes one step per field.                 *)

AllShapes == RichShapes \cup LeanShapes

\* New()
Init ==
    /\ binder = [validator |-> TRUE, callEchoDefaultBinderOnError |-> FALSE]
    /\ pc = "idle"
    /\ target = "none"
    /\ structType = TStruct(<<>>)
    /\ structValue = StructV(<<>>)
    /\ before = StructV(<<>>)
    /\ c = EmptyRequest
    /\ idx = 0
    /\ calledHandler = FALSE
    /\ result = NoResult
    /\ log = <<>>

CallEchoDefaultBinderOnError ==
    /\ pc = "idle"
    /\ \E value \in BOOLEAN :
          binder' = [binder EXCEPT !.callEchoDefaultBinderOnError = value]
    /\ UNCHANGED <<pc, target, structType, structValue, before, c, idx,
                   calledHandler, result, log>>

\* return binder.defaultBinder.Bind(i, c)
Delegate ==
    /\ log' = Append(log, "defaultBinder")
    /\ \E r \in DefaultBinderResults : result' = Returned(r, "default")
    /\ pc' = "done"

\* Bind is entered with i and c; the checks before the loop
Enter(tgt, T, v, cx) ==
    /\ target' = tgt
    /\ structType' = T
    /\ structValue' = v
    /\ before' = v
    /\ c' = cx
    /\ idx' = 1
    /\ calledHandler' = FALSE
    /\ UNCHANGED binder

\* Bind(nil, c): reflect.TypeOf(nil) is nil and its Kind() is called
BindNil ==
    /\ pc = "idle"
    /\ Enter("nil", TStruct(<<>>), Nil, EmptyRequest)
    /\ result' = Panicked
    /\ pc' = "done"
    /\ UNCHANGED log

\* Bind(v, c) with v not a pointer
BindValue ==
    /\ pc = "idle"
    /\ \E T \in AllShapes \cup {TInt(0)} : \E v \in InitialValues(T, TRUE) :
          Enter("value", T, v, EmptyRequest)
    /\ result' = Returned(badRequestError(errorInvalidType), "binder")
    /\ pc' = "done"
    /\ UNCHANGED log

\* a faulty BindPointerToOther, which calls the default binder whatever the
\* fallback flag: InvalidTypeWithoutFallback does not hold of it
BindPointerToOtherDelegates ==
    /\ pc = "idle"
    /\ \E T \in {TInt(0), TSlice(TString)} : \E v \in InitialValues(T, TRUE) :
          Enter("ptrOther", T, v, EmptyRequest)
    /\ Delegate

\* Bind(p, c) with p a pointer to something that is no struct
BindPointerToOther ==
    /\ pc = "idle"
    /\ \E T \in {TInt(0), TSlice(TString)} : \E v \in InitialValues(T, TRUE) :
          Enter("ptrOther", T, v, EmptyRequest)
    /\ IF binder.callEchoDefaultBinderOnError
       THEN Delegate
       ELSE /\ result' = Returned(badRequestError(errorInvalidType), "binder")
            /\ pc' = "done"
            /\ UNCHANGED log

\* Bind(p, c) with p a nil pointer to a struct: reflect.ValueOf(i).Elem()
\* is the zero Value
BindNilPointer ==
    /\ pc = "idle"
    /\ \E T \in AllShapes : Enter("nilPtrStruct", T, Nil, EmptyRequest)
    /\ pc' = "fields"
    /\ UNCHANGED <<result, log>>

(***************************************************************************)
(* Bind(p, c) with p a pointer to a struct.  With `rich` the request       *)
(* carries up to MaxParams, MaxKeys and MaxVals of any key and value, and  *)
(* its method, length and content type are those under which the sections  *)
(* of T read their source; without it the request carries at most one key  *)
(* per source, an identifier of the section, and its method, length and    *)
(* content type range over all of them.                                    *)
(***************************************************************************)
BindPointer(rich) ==
    /\ pc = "idle"
    /\ \E T \in IF rich THEN RichShapes ELSE AllShapes :
       LET payload == HasField(T, formField) \/ HasField(T, bodyField)
           method == payload \/ HasField(T, queryField)
           nKeys == IF rich THEN MaxKeys ELSE 1
           valueLists == ValueLists(IF rich THEN MaxVals ELSE 1)
       IN
       \E v \in InitialValues(T, rich),
          m \in IF ~method THEN {"GET"}
                ELSE IF ~rich THEN {"GET", "POST", "DELETE"}
                ELSE IF payload THEN {"POST"} ELSE {"GET"},
          cl \in IF ~payload THEN {0} ELSE IF rich THEN {1} ELSE {0, 1},
          ct \in IF ~payload THEN {""}
                 ELSE IF ~rich THEN {MIMEApplicationJSON, MIMEApplicationForm, "text/plain"}
                 ELSE IF ~HasField(T, bodyField) THEN {MIMEApplicationForm}
                 ELSE {MIMEApplicationJSON, MIMEApplicationXML, MIMEApplicationForm,
                       "text/plain"},
          ps \in ParamLists(SourceKeys(T, pathField, rich), IF rich THEN MaxParams ELSE 1),
          q \in Maps(SourceKeys(T, queryField, rich), valueLists, nKeys),
          h \in Maps({CanonicalMIMEHeaderKey(k) : k \in SourceKeys(T, headerField, rich)},
                     IF rich THEN RawValues ELSE ListValues, nKeys),
          f \in {[err |-> FALSE, values |-> fm] :
                    fm \in Maps(SourceKeys(T, formField, rich), valueLists, nKeys)}
                 \cup (IF HasField(T, formField)
                       THEN {[err |-> TRUE, values |-> <<>>]} ELSE {}),
          b \in IF ~HasField(T, bodyField) THEN {NoBody}
                ELSE IF rich THEN Payloads
                ELSE {Payload("json", NameDoc), NoBody, Payload("unreadable", JNull)} :
          Enter("ptrStruct", T, v, Request(m, cl, ct, ps, q, h, f, b))
    /\ pc' = "fields"
    /\ UNCHANGED <<result, log>>

InLoop == pc = "fields" /\ idx <= Len(structType.fields)
typeField == structType.fields[idx]
typeFieldKind ==
    IF typeField.Type.kind = "ptr" THEN typeField.Type.elem.kind ELSE typeField.Type.kind

\* a faulty SkipField, which clears the field it skips:
\* UnrecognizedUntouched does not hold of it
SkipFieldClears ==
    /\ InLoop
    /\ typeField.Name \notin fieldHandlers
    /\ idx' = idx + 1
    /\ structValue' = IF structValue = Nil THEN structValue
                      ELSE WithSection(structValue, idx, Zero(typeField.Type))
    /\ UNCHANGED <<binder, pc, target, structType, before, c,
                   calledHandler, result, log>>

\* the field has no handler: continue
SkipField ==
    /\ InLoop
    /\ typeField.Name \notin fieldHandlers
    /\ idx' = idx + 1
    /\ UNCHANGED <<binder, pc, target, structType, structValue, before, c,
                   calledHandler, result, log>>

\* the field has a handler and is no struct, and is not the Body
RejectField ==
    /\ InLoop
    /\ typeField.Name \in fieldHandlers
    /\ typeFieldKind # "struct" /\ typeField.Name # bodyField
    /\ IF binder.callEchoDefaultBinderOnError
       THEN Delegate
       ELSE /\ result' = Returned(badRequestError(
                            getInvalidTypeAtLocationError(typeField.Name, structTypeString)),
                                  "binder")
            /\ pc' = "done"
            /\ UNCHANGED log
    \* the default binder is handed i: it may leave any value in the record
    /\ structValue' \in IF binder.callEchoDefaultBinderOnError /\ structValue # Nil
                         THEN {structValue} \cup InitialValues(structType, TRUE)
                         ELSE {structValue}
    /\ UNCHANGED <<binder, target, structType, before, c, idx, calledHandler>>

\* fieldHandlers[name](c, structType, &structValue, &structField)
handler(name, cx, sType, sValue, i) ==
    CASE name = pathField -> bindPath(cx, sType, sValue, i)
      [] name = queryField -> bindQuery(cx, sType, sValue, i)
      [] name = bodyField -> bindBody(cx, sType, sValue, i)
      [] name = formField -> bindForm(cx, sType, sValue, i)
      [] name = headerField -> bindHeader(cx, sType, sValue, i)

\* a faulty Dispatch, which goes on to the next field after a binder's error:
\* FailFast does not hold of it
DispatchGoesOn(name) ==
    /\ InLoop
    /\ typeField.Name = name
    /\ typeFieldKind = "struct" \/ name = bodyField
    /\ target = "ptrStruct"
    /\ calledHandler' = TRUE
    /\ log' = Append(log, name)
    /\ \E r \in handler(name, c, structType, structValue, idx) :
          /\ structValue' = r.v
          /\ idx' = idx + 1
          /\ IF r.status = "ok" THEN UNCHANGED result
             ELSE result' = Returned(badRequestError(r.err), "binder")
    /\ UNCHANGED <<binder, pc, target, structType, before, c>>

\* the field is the section `name`: its handler is called, and its error
\* ends Bind
Dispatch(name) ==
    /\ InLoop
    /\ typeField.Name = name
    /\ typeFieldKind = "struct" \/ name = bodyField
    /\ IF target = "nilPtrStruct"
       THEN \* structValue.Field(i) of the zero Value
            /\ result' = Panicked
            /\ pc' = "done"
            /\ UNCHANGED <<structValue, idx, calledHandler, log>>
       ELSE /\ calledHandler' = TRUE
            /\ log' = Append(log, name)
            /\ \E r \in handler(name, c, structType, structValue, idx) :
                  /\ structValue' = r.v
                  /\ CASE r.status = "ok" ->
                            idx' = idx + 1 /\ UNCHANGED <<pc, result>>
                       [] r.status = "err" ->
                            /\ result' = Returned(badRequestError(r.err), "binder")
                            /\ pc' = "done"
                            /\ UNCHANGED idx
                       [] r.status = "panic" ->
                            /\ result' = Panicked
                            /\ pc' = "done"
                            /\ UNCHANGED idx
    /\ UNCHANGED <<binder, target, structType, before, c>>

LoopDone == pc = "fields" /\ idx > Len(structType.fields)

\* no handler was called and the fallback is on
DelegateNoSection ==
    /\ LoopDone
    /\ ~calledHandler /\ binder.callEchoDefaultBinderOnError
    /\ Delegate
    \* the default binder is handed i: it may leave any value in the record
    /\ structValue' \in IF structValue # Nil
                         THEN {structValue} \cup InitialValues(structType, TRUE)
                         ELSE {structValue}
    /\ UNCHANGED <<binder, target, structType, before, c, idx, calledHandler>>

\* a faulty Validate, which returns success without running the validator:
\* ValidationFollowsBinding does not hold of it
ValidateSkipped ==
    /\ LoopDone
    /\ ~(~calledHandler /\ binder.callEchoDefaultBinderOnError)
    /\ result' = Returned(NoErr, "binder")
    /\ pc' = "done"
    /\ UNCHANGED <<binder, target, structType, structValue, before, c, idx, calledHandler,
                   log>>

\* the validator, and Bind's return
Validate ==
    /\ LoopDone
    /\ ~(~calledHandler /\ binder.callEchoDefaultBinderOnError)
    /\ IF binder.validator
       THEN LET err == validatorStruct(target, structType, structValue) IN
            /\ log' = Append(log, "validator")
            /\ result' = Returned(IF err = NoErr THEN NoErr ELSE badRequestError(err),
                                  "binder")
       ELSE /\ result' = Returned(NoErr, "binder")
            /\ UNCHANGED log
    /\ pc' = "done"
    /\ UNCHANGED <<binder, target, structType, structValue, before, c, idx, calledHandler>>

\* Bind(p, c) once more, with the record that a Bind has filled and the
\* same request, of at most MaxRepeatKeys keys per source
BindAgain ==
    /\ pc = "done"
    /\ target = "ptrStruct" /\ result.status = "ok" /\ result.via = "binder"
    /\ structValue # before
    /\ Len(c.ParamNames) <= MaxRepeatKeys
    /\ \A m \in {c.QueryParams, c.FormParams, c.Header} :
          Cardinality(DOMAIN m) <= MaxRepeatKeys
    /\ before' = structValue
    /\ idx' = 1
    /\ calledHandler' = FALSE
    /\ result' = NoResult
    /\ log' = <<>>
    /\ pc' = "fields"
    /\ UNCHANGED <<binder, target, structType, structValue, c>>

Next ==
    \/ CallEchoDefaultBinderOnError
    \/ BindNil
    \/ BindValue
    \/ BindPointerToOther
    \/ BindNilPointer
    \/ BindPointer(TRUE)
    \/ BindPointer(FALSE)
    \/ BindAgain
    \/ SkipField
    \/ RejectField
    \/ Dispatch(pathField)
    \/ Dispatch(queryField)
    \/ Dispatch(bodyField)
    \/ Dispatch(formField)
    \/ Dispatch(headerField)
    \/ DelegateNoSection
    \/ Validate

Spec == Init /\ [][Next]_vars

----------------------------------------------------------------------------
(* The coercion on its own: setWithProperType is handed one source string  *)
(* and one slot, as bindPath hands it c.ParamValues()[i] and field.Value.  *)
(* structType is the slot's type, structValue the slot, before the slot as *)
(* it was, c.ParamValues the string, result what the call returned.        *)

\* the kinds of slot the coercion is handed; the list is a kind it does
\* not know
CoercionTypes ==
    {TInt(w) : w \in {0, 8, 16, 32, 64}} \cup {TUint(w) : w \in {0, 8, 16, 32, 64}}
    \cup {TPtr(TInt(8)), TPtr(TUint(16)), TPtr(TBool), TPtr(TString),
          TBool, TFloat(64), TString, TSlice(TString)}

\* the source strings: the limits of every width, one past them, signs,
\* leading zeros, the empty string and strings that are no integer
CoercionStrings ==
    {
     <<>>,
     <<"0">>,
     <<"-", "0">>,
     <<"+", "5">>,
     <<"0", "0", "7">>,
     <<"x">>,
     <<"1", ".", "5">>,
     <<"-">>,
     <<"1", "2", "7">>,
     <<"1", "2", "8">>,
     <<"-", "1", "2", "8">>,
     <<"-", "1", "2", "9">>,
     <<"2", "5", "5">>,
     <<"2", "5", "6">>,
     <<"-", "1">>,
     <<"3", "2", "7", "6", "7">>,
     <<"3", "2", "7", "6", "8">>,
     <<"-", "3", "2", "7", "6", "8">>,
     <<"-", "3", "2", "7", "6", "9">>,
     <<"6", "5", "5", "3", "5">>,
     <<"6", "5", "5", "3", "6">>,
     <<"2", "1", "4", "7", "4", "8", "3", "6", "4", "7">>,
     <<"2", "1", "4", "7", "4", "8", "3", "6", "4", "8">>,
     <<"-", "2", "1", "4", "7", "4", "8", "3", "6", "4", "8">>,
     <<"-", "2", "1", "4", "7", "4", "8", "3", "6", "4", "9">>,
     <<"4", "2", "9", "4", "9", "6", "7", "2", "9", "5">>,
     <<"4", "2", "9", "4", "9", "6", "7", "2", "9", "6">>,
     <<"9", "2", "2", "3", "3", "7", "2", "0", "3", "6", "8", "5", "4", "7", "7", "5", "8", "0", "7">>,
     <<"9", "2", "2", "3", "3", "7", "2", "0", "3", "6", "8", "5", "4", "7", "7", "5", "8", "0", "8">>,
     <<"-", "9", "2", "2", "3", "3", "7", "2", "0", "3", "6", "8", "5", "4", "7", "7", "5", "8", "0", "8">>,
     <<"-", "9", "2", "2", "3", "3", "7", "2", "0", "3", "6", "8", "5", "4", "7", "7", "5", "8", "0", "9">>,
     <<"1", "8", "4", "4", "6", "7", "4", "4", "0", "7", "3", "7", "0", "9", "5", "5", "1", "6", "1", "5">>,
     <<"1", "8", "4", "4", "6", "7", "4", "4", "0", "7", "3", "7", "0", "9", "5", "5", "1", "6", "1", "6">>}

CoercionInit ==
    /\ binder = [validator |-> TRUE, callEchoDefaultBinderOnError |-> FALSE]
    /\ pc = "coerce"
    /\ target = "slot"
    /\ structType \in CoercionTypes
    /\ structValue \in {Zero(structType), Preset(structType, TRUE)}
    /\ before = structValue
    /\ \E val \in CoercionStrings :
          c = [EmptyRequest EXCEPT !.ParamNames = <<"Id">>, !.ParamValues = <<val>>]
    /\ idx = 0
    /\ calledHandler = FALSE
    /\ result = NoResult
    /\ log = <<>>

\* err := setWithProperType(field.Type.Kind(), value, field.Value)
Coerce ==
    /\ pc = "coerce"
    /\ LET r == setWithProperType(structType, c.ParamValues[1], structValue)
       IN  /\ structValue' = r.v
           /\ result' = Returned(r.err, "coercion")
    /\ pc' = "coerced"
    /\ UNCHANGED <<binder, target, structType, before, c, idx, calledHandler, log>>

CoercionSpec == CoercionInit /\ [][Coerce]_vars

----------------------------------------------------------------------------
(* getStructFields step by step: one step per turn of its loop, per call   *)
(* and per return.  structType and structValue are the section, log the    *)
(* stack of the calls that have not returned, idx the number of records    *)
(* allocated by reflect.New.  A frame holds the type and the path of the   *)
(* Value the call walks, the loop index i, the read-only flag and the      *)
(* mapping built so far, its paths relative to that Value.                 *)

MaxDepth == 6       \* frames the goroutine's stack has room for

\* type Node struct { Id int; Next *Node }: the field Next names the type
\* it is declared in
Node ==
    TStruct(<<Fld("Id", TInt(0)), Fld("Next", TPtr([kind |-> "named", name |-> "Node"]))>>)
NamedTypes == ("Node" :> Node)

\* fieldType.Type.Elem()
ElemOf(T) == IF T.elem.kind = "named" THEN NamedTypes[T.elem.name] ELSE T.elem

Frame(T, path, ro) == [T |-> T, path |-> path, i |-> 1, ro |-> ro, fields |-> <<>>]
Top == log[Len(log)]
TopField == Top.T.fields[Top.i]
TopFieldPath == Append(Top.path, Top.i)
TopFieldValue == GetAt(structValue, TopFieldPath)
\* kind, after the pointer was looked through
TopFieldKind ==
    IF TopField.Type.kind = "ptr" THEN ElemOf(TopField.Type).kind ELSE TopField.Type.kind
TopFieldNil == TopField.Type.kind = "ptr" /\ TopFieldValue = Nil
InFlattenLoop ==
    pc = "flatten" /\ Top.T.kind = "struct" /\ Top.i <= Len(Top.T.fields)

\* the sections the binders flatten, and two that hold a Node
SectionTypes ==
    UNION {{S.fields[i].Type :
              i \in {k \in 1..Len(S.fields) :
                       /\ S.fields[k].Name \in fieldHandlers \ {bodyField}
                       /\ S.fields[k].Type.kind = "struct"}} :
             S \in {R \in AllShapes : R.kind = "struct"}}
listRecord == TStruct(<<Fld("Name", TString), Fld("Head", TPtr(Node))>>)
\* a section whose pointer to a record cannot be set
hiddenPointerRecord ==
    TStruct(<<Fld("Id", TInt(0)),
              Unexported("inner", TPtr(TStruct(<<Fld("Name", TString)>>)))>>)
FlattenValues(T) ==
    IF T = Node
    THEN {Zero(Node), StructV(<<NumV(FALSE, <<"7">>), PtrTo(Zero(Node))>>)}
    ELSE IF T = listRecord THEN {Zero(listRecord)}
    ELSE InitialValues(T, TRUE)

FlattenInit ==
    /\ binder = [validator |-> TRUE, callEchoDefaultBinderOnError |-> FALSE]
    /\ pc = "flatten"
    /\ target = "section"
    /\ structType \in SectionTypes \cup {Node, listRecord, hiddenPointerRecord}
    /\ structValue \in FlattenValues(structType)
    /\ before = structValue
    /\ c = EmptyRequest
    /\ idx = 0
    /\ calledHandler = FALSE
    /\ result = NoResult
    /\ log = <<Frame(structType, <<>>, FALSE)>>

\* what a step of the walk leaves alone
FlattenFrame == UNCHANGED <<binder, target, structType, before, c, calledHandler>>

\* structField.Type().NumField() panics: the Value is a pointer
FlattenNumFieldPanics ==
    /\ pc = "flatten"
    /\ Top.T.kind # "struct"
    /\ pc' = "flattened"
    /\ result' = Panicked
    /\ UNCHANGED <<structValue, idx, log>>
    /\ FlattenFrame

\* an anonymous field that is no record: return nil, errorInvalidAnonymousField,
\* which every caller returns in its turn
FlattenInvalidAnonymous ==
    /\ InFlattenLoop
    /\ TopField.Anonymous /\ TopFieldKind # "struct"
    /\ pc' = "flattened"
    /\ result' = Returned(errorInvalidAnonymousField, "flatten")
    /\ UNCHANGED <<structValue, idx, log>>
    /\ FlattenFrame

\* a leaf: fields[identifier] = &structFieldData{...}, or continue for "-"
FlattenLeaf ==
    /\ InFlattenLoop
    /\ ~TopField.Anonymous /\ TopFieldKind # "struct"
    /\ log' = [log EXCEPT ![Len(log)] =
                  [@ EXCEPT !.i = @ + 1,
                            !.fields = addLeaf(TopField, Top.i, Top.ro \/ ~TopField.Exported,
                                               @)]]
    /\ UNCHANGED <<pc, structValue, idx, result>>
    /\ FlattenFrame

\* fieldStruct.Set(reflect.New(...)) through an unexported field panics
FlattenSetPanics ==
    /\ InFlattenLoop
    /\ TopFieldKind = "struct" /\ TopFieldNil
    /\ Top.ro \/ ~TopField.Exported
    /\ pc' = "flattened"
    /\ result' = Panicked
    /\ UNCHANGED <<structValue, idx, log>>
    /\ FlattenFrame

\* a nil pointer to a record: the record is allocated, the pointer set and
\* getStructFields called on the new record
FlattenAllocate ==
    /\ InFlattenLoop
    /\ TopFieldKind = "struct" /\ TopFieldNil
    /\ ~(Top.ro \/ ~TopField.Exported)
    /\ Len(log) < MaxDepth
    /\ structValue' = SetAt(structValue, TopFieldPath, PtrTo(Zero(ElemOf(TopField.Type))))
    /\ idx' = idx + 1
    /\ log' = Append(log, Frame(ElemOf(TopField.Type), TopFieldPath,
                                Top.ro \/ (~TopField.Exported /\ ~TopField.Anonymous)))
    /\ UNCHANGED <<pc, result>>
    /\ FlattenFrame

\* a record, or a pointer that is not nil: getStructFields is called on
\* the field as it is
FlattenDescend ==
    /\ InFlattenLoop
    /\ TopFieldKind = "struct" /\ ~TopFieldNil
    /\ Len(log) < MaxDepth
    /\ log' = Append(log, Frame(TopField.Type, TopFieldPath,
                                Top.ro \/ (~TopField.Exported /\ ~TopField.Anonymous)))
    /\ UNCHANGED <<pc, structValue, idx, result>>
    /\ FlattenFrame

\* the call that the stack has no room for: the runtime ends the program
\* with "fatal error: stack overflow"
FlattenOverflow ==
    /\ InFlattenLoop
    /\ TopFieldKind = "struct"
    /\ ~(TopFieldNil /\ (Top.ro \/ ~TopField.Exported))
    /\ Len(log) = MaxDepth
    /\ pc' = "overflow"
    /\ result' = [status |-> "fatal", err |-> NoErr, via |-> "runtime"]
    /\ UNCHANGED <<structValue, idx, log>>
    /\ FlattenFrame

\* return fields, nil: the caller merges tempFields and goes on; the first
\* call hands the mapping to the binder
FlattenReturn ==
    /\ pc = "flatten"
    /\ Top.T.kind = "struct" /\ Top.i > Len(Top.T.fields)
    /\ IF Len(log) = 1
       THEN /\ pc' = "flattened"
            /\ result' = Returned(NoErr, "flatten")
            /\ log' = log
       ELSE /\ log' = [SubSeq(log, 1, Len(log) - 1) EXCEPT ![Len(log) - 1] =
                          [@ EXCEPT !.i = @ + 1,
                                    !.fields = [id \in DOMAIN Top.fields |->
                                                  [Top.fields[id] EXCEPT
                                                     !.path = <<log[Len(log) - 1].i>> \o @]]
                                               @@ @]]
            /\ UNCHANGED <<pc, result>>
    /\ UNCHANGED <<structValue, idx>>
    /\ FlattenFrame

FlattenNext ==
    \/ FlattenNumFieldPanics
    \/ FlattenInvalidAnonymous
    \/ FlattenLeaf
    \/ FlattenSetPanics
    \/ FlattenAllocate
    \/ FlattenDescend
    \/ FlattenOverflow
    \/ FlattenReturn

\* the goroutine that called Bind keeps running
FlattenSpec == FlattenInit /\ [][FlattenNext]_vars /\ WF_vars(FlattenNext)

----------------------------------------------------------------------------
(* What the properties below speak of *)

Range(s) == {s[i] : i \in DOMAIN s}
Last(s) == s[Len(s)]
Sections == {i \in 1..Len(structType.fields) : structType.fields[i].Name \in fieldHandlers}

\* Bind has returned the error of the binder of the section at idx
BinderFailed ==
    /\ target = "ptrStruct" /\ result.status = "err" /\ result.via = "binder"
    /\ idx \in Sections /\ log # <<>> /\ Last(log) = structType.fields[idx].Name

----------------------------------------------------------------------------
(* C1  Fail-fast across sections: when the binder of a section returns an  *)
(* error, Bind returns that error at once (wrapped as a bad request) and   *)
(* does nothing further: the fields declared after the failing section     *)
(* hold their values of before the call and their binders were not called, *)
(* the validator was not run, and what the sections before it wrote is     *)
(* left as it was.  A result exists only once Bind has returned, and      *)
(* nothing changes then until Bind is called again.                        *)
FailFast ==
    [][/\ result'.status # "none" => pc' = "done"
       /\ pc = "done" => (UNCHANGED vars \/ BindAgain)
       /\ BinderFailed' =>
            /\ \E o \in handler(typeField.Name, c, structType, structValue, idx) :
                  /\ o.status = "err"
                  /\ result' = Returned(badRequestError(o.err), "binder")
                  /\ structValue' = o.v
            /\ \A j \in 1..Len(structType.fields) :
                  /\ j < idx => structValue'.f[j] = structValue.f[j]
                  /\ j > idx => /\ structValue'.f[j] = before.f[j]
                                /\ structType.fields[j].Name \notin Range(log')
            /\ "validator" \notin Range(log')]_vars

\* a section failed after an earlier one had written and before a later one
FailFastWitness ==
    /\ BinderFailed /\ pc = "done"
    /\ \E j \in Sections : j < idx /\ structValue.f[j] # before.f[j]
    /\ \E j \in Sections : j > idx

----------------------------------------------------------------------------
(* C2  Validation follows binding, in every Bind call that is not handed   *)
(* to the default binder: success is returned only after the validator has *)
(* run over the record, the validator runs last and only after the binder  *)
(* of every recognized section has been called, and a record that violates *)
(* a declared constraint after binding makes Bind return the validation    *)
(* error instead of success.                                               *)
ValidationFollowsBinding ==
    (pc = "done" /\ binder.validator /\ result.via = "binder") =>
        /\ result.status = "ok" =>
              /\ "validator" \in Range(log)
              /\ ValidStruct(structType, structValue)
        /\ "validator" \in Range(log) =>
              /\ Last(log) = "validator"
              /\ \A j \in Sections :
                    \E k \in 1..(Len(log) - 1) : log[k] = structType.fields[j].Name
              /\ (target = "ptrStruct" /\ ~ValidStruct(structType, structValue)) =>
                    result = Returned(badRequestError(errValidation), "binder")

\* the `required` Name of the Header section was not sent: validation error
ValidationFollowsBindingWitness ==
    /\ pc = "done" /\ structType = validateTester
    /\ log = <<headerField, "validator">>
    /\ result = Returned(badRequestError(errValidation), "binder")

\* C2 as stated, of every Bind call on a pointer to a record with a binder
\* that has a validator: success is returned only after the validator has
\* run over the record
ValidationFollowsEveryBind ==
    (pc = "done" /\ binder.validator /\ target = "ptrStruct" /\ result.status = "ok") =>
        /\ "validator" \in Range(log)
        /\ ValidStruct(structType, structValue)

----------------------------------------------------------------------------
(* C3  Bind's result is total: for every pointer, nil or not, to a record  *)
(* of any shape and every request, Bind returns success or a classified    *)
(* error and never panics.                                                 *)
BindIsTotal ==
    target \in {"ptrStruct", "nilPtrStruct"} => result.status # "panic"

----------------------------------------------------------------------------
(* C4  With the fallback enabled Bind never returns a structural failure:  *)
(* a target that is no pointer to a record, a recognized section of the    *)
(* wrong shape and a record without a recognized section are all handed to *)
(* the default binder, whose result is returned.                           *)
FallbackSuppressesStructuralFailures ==
    (pc = "done" /\ binder.callEchoDefaultBinderOnError) =>
        /\ target \in {"value", "ptrOther"} => result.via = "default"
        /\ (target = "ptrStruct" /\ Sections = {}) => result.via = "default"
        /\ result.via = "binder" =>
              result.err.kind \notin {"InvalidType", "InvalidTypeAtLocation"}

----------------------------------------------------------------------------
(* C5  With the fallback disabled, Bind on a value that is no pointer, or  *)
(* on a pointer to something that is no record, returns InvalidType; no    *)
(* section binder, validator or default binder has run and the value is    *)
(* what it was.                                                            *)
InvalidTypeWithoutFallback ==
    (pc = "done" /\ ~binder.callEchoDefaultBinderOnError
                 /\ target \in {"value", "ptrOther"}) =>
        /\ result = Returned(badRequestError(errorInvalidType), "binder")
        /\ log = <<>>
        /\ ~calledHandler
        /\ structValue = before

\* a pointer to an integer was refused
InvalidTypeWithoutFallbackWitness ==
    /\ pc = "done" /\ ~binder.callEchoDefaultBinderOnError
    /\ target = "ptrOther" /\ structType = TInt(0)
    /\ result.err.kind = "InvalidType"

----------------------------------------------------------------------------
(* C6  Section shape check, fallback disabled, on a record that is there:  *)
(* when the loop of Bind comes to a section named Path, Query, Header or   *)
(* Form whose declared type is not a record, Bind returns                  *)
(* InvalidTypeAtLocation for that section and does not call its binder; a  *)
(* Body section of any kind, like a section that is a record, is handed to *)
(* its binder.                                                             *)
SectionShapeCheck ==
    [][(InLoop /\ ~binder.callEchoDefaultBinderOnError /\ target = "ptrStruct"
               /\ typeField.Name \in fieldHandlers) =>
          IF typeField.Name # bodyField /\ typeField.Type.kind # "struct"
          THEN /\ pc' = "done"
               /\ result' = Returned(badRequestError(
                               getInvalidTypeAtLocationError(typeField.Name,
                                                             structTypeString)), "binder")
               /\ log' = log
               /\ structValue' = structValue
          ELSE log' = Append(log, typeField.Name)]_vars

----------------------------------------------------------------------------
(* C7  A field tagged binder:"-" is never written by a source binder,      *)
(* whatever its kind and whatever keys the source carries: it holds after  *)
(* Bind what it held before; and a Path parameter named as an excluded     *)
(* field makes Bind fail with the missing-parameter error.                 *)
RECURSIVE ExcludedKept(_, _, _)
ExcludedKept(T, v, old) ==
    \A i \in 1..Len(T.fields) :
        LET ft == T.fields[i] IN
        IF ft.Tag = ExclusionTag THEN v.f[i] = old.f[i]
        ELSE IF ft.Type.kind = "struct" THEN ExcludedKept(ft.Type, v.f[i], old.f[i])
        ELSE IF ft.Type.kind = "ptr" /\ ft.Type.elem.kind = "struct"
                /\ v.f[i] # Nil /\ old.f[i] # Nil
        THEN ExcludedKept(ft.Type.elem, v.f[i].p, old.f[i].p)
        ELSE TRUE

RECURSIVE ExcludedNames(_)
ExcludedNames(T) ==
    UNION {LET ft == T.fields[i] IN
           IF ft.Tag = ExclusionTag THEN {ft.Name}
           ELSE IF ft.Type.kind = "struct" THEN ExcludedNames(ft.Type)
           ELSE IF ft.Type.kind = "ptr" /\ ft.Type.elem.kind = "struct"
           THEN ExcludedNames(ft.Type.elem)
           ELSE {} :
             i \in 1..Len(T.fields)}

ExcludedFieldsNeverWritten ==
    target = "ptrStruct" =>
        \A j \in Sections :
            structType.fields[j].Type.kind = "struct" =>
                /\ ExcludedKept(structType.fields[j].Type, structValue.f[j], before.f[j])
                /\ (/\ pc = "done" /\ structType.fields[j].Name = pathField
                    /\ pathField \in Range(log) /\ c.ParamNames # <<>>
                    /\ c.ParamNames[1] \in ExcludedNames(structType.fields[j].Type)
                          \ LeafIdentifiers(structType.fields[j].Type))
                   => result = Returned(badRequestError(
                                   getMissingParamAtLocationError(pathField, c.ParamNames[1])),
                                        "binder")

----------------------------------------------------------------------------
(* C8  A schema error is reported for every section kind: when the Path,   *)
(* Query, Header or Form section holds an anonymous field that is no       *)
(* record, Bind returns an error whatever the request's method, content    *)
(* type, content length and keys.                                          *)
SchemaErrorAlwaysReported ==
    (/\ pc = "done" /\ target = "ptrStruct"
     /\ \E n \in SchemaSections : structType = OneSection(n, invalidEmbedded))
        => result.status = "err"

----------------------------------------------------------------------------
(* C9  Path binding.  bindPath takes the routed (name, value) pairs in     *)
(* order.  The first pair that cannot be bound ends Bind: with the         *)
(* MissingParam error of "Path" when its name is no identifier of the      *)
(* flattened section, with the NotSettable error of "Path" when its slot   *)
(* cannot be set; the pairs after it are not bound.  When every pair       *)
(* matches a settable slot and coerces, each matched slot holds the        *)
(* coerced value of its (last) parameter, the other slots are as they      *)
(* were, and pairs with distinct names give the same record in any order.  *)
Coerced(T, val) == setWithProperType(T, val, Zero(T))

\* the pair n cannot be bound
Unbindable(fields, names, values, n) ==
    \/ names[n] \notin DOMAIN fields
    \/ ~fields[names[n]].CanSet
    \/ Coerced(fields[names[n]].Type, values[n]).err # NoErr

FirstUnbindable(fields, names, values) ==
    IF \E n \in DOMAIN names : Unbindable(fields, names, values, n)
    THEN CHOOSE n \in DOMAIN names :
            /\ Unbindable(fields, names, values, n)
            /\ \A m \in 1..(n - 1) : ~Unbindable(fields, names, values, m)
    ELSE 0

Permuted(cx, o) ==
    [cx EXCEPT !.ParamNames = [n \in DOMAIN o |-> cx.ParamNames[o[n]]],
               !.ParamValues = [n \in DOMAIN o |-> cx.ParamValues[o[n]]]]

\* the step of the Path binder on the flattened section fl, whose first
\* unbindable pair is k (0: none)
PathStep(fl, names, values, k) ==
    IF k # 0
    THEN /\ pc' = "done" /\ result'.status = "err"
         /\ names[k] \notin DOMAIN fl.fields =>
               result' = Returned(badRequestError(badRequestError(
                             getMissingParamAtLocationError(pathField, names[k]))), "binder")
         /\ (names[k] \in DOMAIN fl.fields /\ ~fl.fields[names[k]].CanSet) =>
               result' = Returned(badRequestError(badRequestError(
                             getNotSettableParamAtLocationError(pathField, names[k]))), "binder")
         /\ \A id \in DOMAIN fl.fields :
               (\A m \in 1..k : names[m] # id) =>
                   GetAt(structValue'.f[idx], fl.fields[id].path) = GetAt(fl.v, fl.fields[id].path)
    ELSE /\ pc' = "fields" /\ idx' = idx + 1 /\ result' = result
         /\ \A n \in DOMAIN names :
               (\A m \in (n + 1)..Len(names) : names[m] # names[n]) =>
                   GetAt(structValue'.f[idx], fl.fields[names[n]].path)
                       = Coerced(fl.fields[names[n]].Type, values[n]).v
         /\ \A id \in DOMAIN fl.fields :
               (\A m \in DOMAIN names : names[m] # id) =>
                   GetAt(structValue'.f[idx], fl.fields[id].path) = GetAt(fl.v, fl.fields[id].path)
         /\ (\A n, m \in DOMAIN names : n # m => names[n] # names[m]) =>
               \A o \in Orders(DOMAIN names) :
                   bindPath(Permuted(c, o), structType, structValue, idx)
                       = {Outcome("ok", NoErr, structValue')}

PathFlattened(fl) ==
    fl.status = "ok" =>
        PathStep(fl, c.ParamNames, c.ParamValues,
                 FirstUnbindable(fl.fields, c.ParamNames, c.ParamValues))

PathBinding ==
    [][(InLoop /\ target = "ptrStruct" /\ typeField.Name = pathField
               /\ typeField.Type.kind = "struct") =>
          PathFlattened(getStructFields(typeField.Type, structValue.f[idx], FALSE))]_vars

\* /users/:Name/:Id with ("x", "3") bound Name = "x" and Id = 3 over the
\* values of before the call
PathBindingWitness ==
    /\ pc = "done" /\ result.status = "ok" /\ structType = pathNormalTester
    /\ c.ParamNames = <<"Name", "Id">> /\ c.ParamValues = <<SX, S3>>
    /\ before = Preset(pathNormalTester, FALSE)
    /\ structValue.f[1].f[1] = StrV(SX)
    /\ structValue.f[1].f[2] = NumV(FALSE, S3)

----------------------------------------------------------------------------
(* C10  List binding in Query and Form.  After a successful Bind, for each *)
(* Query or Form section whose binder read its source and each key of the  *)
(* source whose slot is a list, the slot holds a list with as many entries *)
(* as the key has values, entry i being the coercion of value i: what the  *)
(* slot held before is replaced.                                           *)
ListSlot(slot, elemType, values) ==
    /\ slot.k = "slice"
    /\ Len(slot.l) = Len(values)
    /\ \A n \in DOMAIN values : slot.l[n] = Coerced(elemType, values[n]).v

ListsBound(fields, params, sv) ==
    \A key \in DOMAIN params :
        (key \in DOMAIN fields /\ fields[key].Type.kind = "slice") =>
            ListSlot(GetAt(sv, fields[key].path), fields[key].Type.elem, params[key])

\* the binder of section j read its source, given that Bind succeeded
SourceRead(j) ==
    \/ structType.fields[j].Name = queryField
    \/ /\ structType.fields[j].Name = formField
       /\ c.ContentLength # 0 /\ IsFormContentType(c.ContentType)

SourceOf(j) ==
    IF structType.fields[j].Name = queryField THEN c.QueryParams ELSE c.FormParams

ListBinding ==
    (pc = "done" /\ target = "ptrStruct" /\ result.status = "ok" /\ result.via = "binder") =>
        \A j \in Sections :
            (structType.fields[j].Type.kind = "struct" /\ SourceRead(j)) =>
                ListsBound(getStructFields(structType.fields[j].Type, structValue.f[j],
                                           FALSE).fields,
                           SourceOf(j), structValue.f[j])

\* ?Data=3 bound the one-entry list ["3"] into a slot that held two entries
ListBindingWitness ==
    /\ pc = "done" /\ result.status = "ok" /\ structType = queryTester
    /\ c.QueryParams = ("Data" :> <<S3>>)
    /\ before.f[1].f[3] = SliceV(<<StrV(OldStr), StrV(OldStr)>>)
    /\ structValue.f[1].f[3] = SliceV(<<StrV(S3)>>)

----------------------------------------------------------------------------
(* C11  Scalar binding in Query and Form: of the values supplied for a key *)
(* whose slot is scalar only the first is coerced into the slot.  The      *)
(* values after it are ignored: the binder's outcome is its outcome on the *)
(* request cut to the first value of every such key, so they never cause   *)
(* an error, and after a successful Bind the slot holds the coercion of    *)
(* the first value.                                                        *)
FirstValues(params, fields) ==
    [key \in DOMAIN params |->
        IF key \in DOMAIN fields /\ fields[key].Type.kind # "slice"
        THEN <<params[key][1]>> ELSE params[key]]

ScalarsFirst(fl) ==
    fl.status = "ok" =>
        handler(typeField.Name, c, structType, structValue, idx)
            = handler(typeField.Name,
                      [c EXCEPT !.QueryParams = FirstValues(@, fl.fields),
                                !.FormParams = FirstValues(@, fl.fields)],
                      structType, structValue, idx)

ScalarsBound(fields, params, sv) ==
    \A key \in DOMAIN params :
        (key \in DOMAIN fields /\ fields[key].Type.kind # "slice") =>
            GetAt(sv, fields[key].path) = Coerced(fields[key].Type, params[key][1]).v

ScalarBinding ==
    /\ (InLoop /\ target = "ptrStruct" /\ typeField.Name \in {queryField, formField}
               /\ typeField.Type.kind = "struct") =>
          ScalarsFirst(getStructFields(typeField.Type, structValue.f[idx], FALSE))
    /\ (pc = "done" /\ target = "ptrStruct" /\ result.status = "ok"
                    /\ result.via = "binder") =>
          \A j \in Sections :
              (structType.fields[j].Type.kind = "struct" /\ SourceRead(j)) =>
                  ScalarsBound(getStructFields(structType.fields[j].Type, structValue.f[j],
                                               FALSE).fields,
                               SourceOf(j), structValue.f[j])

\* ?Id=3&Id=x bound Id = 3, though "x" is no integer
ScalarBindingWitness ==
    /\ pc = "done" /\ result.status = "ok" /\ structType = excludedQueryRecord
    /\ c.QueryParams = ("Id" :> <<S3, SX>>)
    /\ before.f[2].f[1] = NumV(FALSE, <<"7">>)
    /\ structValue.f[2].f[1] = NumV(FALSE, S3)

----------------------------------------------------------------------------
(* C12  Key matching in Query and Form is by exact identifier.  The        *)
(* identifiers of the flattened section are the `binder` tags of its leaf  *)
(* fields and the names of those without a tag, so a field with a tag is   *)
(* not reached through its name; a key that is no identifier is ignored,   *)
(* the binder's outcome being its outcome on the request without that key; *)
(* and after a successful Bind the slot of every key that is an identifier *)
(* holds what was bound, every other slot what it held.                    *)
Matched(params, fields) ==
    [key \in DOMAIN params \cap DOMAIN fields |-> params[key]]

KeysMatched(fl) ==
    fl.status = "ok" =>
        /\ DOMAIN fl.fields = LeafIdentifiers(typeField.Type)
        /\ handler(typeField.Name, c, structType, structValue, idx)
              = handler(typeField.Name,
                        [c EXCEPT !.QueryParams = Matched(@, fl.fields),
                                  !.FormParams = Matched(@, fl.fields)],
                        structType, structValue, idx)

OthersKept(fl, params, sv) ==
    \A id \in DOMAIN fl.fields \ DOMAIN params :
        GetAt(sv, fl.fields[id].path) = GetAt(fl.v, fl.fields[id].path)

KeyMatching ==
    /\ (InLoop /\ target = "ptrStruct" /\ typeField.Name \in {queryField, formField}
               /\ typeField.Type.kind = "struct") =>
          KeysMatched(getStructFields(typeField.Type, structValue.f[idx], FALSE))
    /\ (pc = "done" /\ target = "ptrStruct" /\ result.status = "ok"
                    /\ result.via = "binder") =>
          \A j \in Sections :
              (structType.fields[j].Type.kind = "struct" /\ SourceRead(j)) =>
                  /\ ScalarsBound(getStructFields(structType.fields[j].Type,
                                                  structValue.f[j], FALSE).fields,
                                  SourceOf(j), structValue.f[j])
                  /\ ListsBound(getStructFields(structType.fields[j].Type,
                                                structValue.f[j], FALSE).fields,
                                SourceOf(j), structValue.f[j])
                  /\ OthersKept(getStructFields(structType.fields[j].Type, before.f[j],
                                                FALSE),
                                SourceOf(j), structValue.f[j])

\* ?Name=3&name=x: the field Name, tagged "name", was bound from the key
\* "name" and the key "Name" was ignored
KeyMatchingWitness ==
    /\ pc = "done" /\ result.status = "ok" /\ structType = taggedQueryRecord
    /\ c.QueryParams = ("Name" :> <<S3>>) @@ ("name" :> <<SX>>)
    /\ structValue.f[1].f[1] = StrV(SX)

----------------------------------------------------------------------------
(* C13  Identifier collisions are resolved by declaration order.  When     *)
(* several leaf fields of one section (direct, nested or embedded) have    *)
(* the same identifier, the flattened mapping holds the one declared last, *)
(* and the section's binder never writes the others: they hold what they   *)
(* held when Bind was called.                                              *)
RECURSIVE LeafSlots(_, _)
\* the leaf fields below a section type in declaration order, each with its
\* identifier and its path
LeafSlots(T, prefix) ==
    LET F[i \in 0..Len(T.fields)] ==
            IF i = 0 THEN <<>>
            ELSE LET ft == T.fields[i]
                     inner == IF ft.Type.kind = "ptr" THEN ft.Type.elem ELSE ft.Type
                 IN  IF inner.kind = "struct"
                     THEN F[i - 1] \o LeafSlots(inner, Append(prefix, i))
                     ELSE IF ft.Tag = ExclusionTag THEN F[i - 1]
                     ELSE Append(F[i - 1],
                                 [id |-> IF ft.Tag = "" THEN ft.Name ELSE ft.Tag,
                                  path |-> Append(prefix, i)])
    IN  F[Len(T.fields)]

\* slot n of `slots` is declared last among the slots of its identifier
DeclaredLast(slots, n) == \A m \in (n + 1)..Len(slots) : slots[m].id # slots[n].id

LastWins(fl, slots, sv) ==
    fl.status = "ok" =>
        \A n \in DOMAIN slots :
            IF DeclaredLast(slots, n)
            THEN fl.fields[slots[n].id].path = slots[n].path
            ELSE GetAt(sv, slots[n].path) = GetAt(fl.v, slots[n].path)

IdentifierCollisions ==
    target = "ptrStruct" =>
        \A j \in Sections :
            (structType.fields[j].Type.kind = "struct"
                /\ structType.fields[j].Name # bodyField) =>
                LastWins(getStructFields(structType.fields[j].Type, before.f[j], FALSE),
                         LeafSlots(structType.fields[j].Type, <<>>), structValue.f[j])

\* ?Id=x was written into the field Id declared last, and not into the Id
\* of the embedded record nor into the Id of the nested one
IdentifierCollisionsWitness ==
    /\ pc = "done" /\ result.status = "ok"
    /\ structType = collidingRecord(queryField, <<1, 2, 3>>)
    /\ c.QueryParams = ("Id" :> <<SX>>)
    /\ before = Preset(structType, FALSE)
    /\ structValue.f[1].f[1].f[1] = StrV(OldStr)
    /\ structValue.f[1].f[2].f[1] = StrV(OldStr)
    /\ structValue.f[1].f[3] = StrV(SX)

----------------------------------------------------------------------------
(* C14  Presence table semantics.  For the table Bind stores for a JSON    *)
(* object payload and every list of segments k1 ... kn free of dots,       *)
(* FieldExists("k1.k2...kn") is true iff the payload has the key k1, whose *)
(* value is an object that has the key k2, and so on down to kn; it is     *)
(* false once a segment is absent or a value on the way is no object.      *)
RECURSIVE HasPath(_, _)
HasPath(doc, ks) ==
    /\ doc.j = "obj"
    /\ MapKey(Head(ks)) \in DOMAIN doc.m
    /\ Len(ks) > 1 => HasPath(doc.m[MapKey(Head(ks))], Tail(ks))

\* the segments asked for: the keys of the payload and the empty segment;
\* the lists of up to MaxSegments of them
MaxSegments == 3
Segments == {<<>>, <<"a">>, <<"b">>, <<"a", "b">>}
SegmentLists == UNION {[1..n -> Segments] : n \in 1..MaxSegments}

\* Bind has stored the table of a JSON object payload
TableStored ==
    /\ pc = "done" /\ target = "ptrStruct" /\ result.status = "ok" /\ result.via = "binder"
    /\ bodyField \in Range(log) /\ c.Method # "GET" /\ c.ContentLength # 0
    /\ HasField(structType, bodyField) /\ FieldType(structType, bodyField).kind = "struct"
    /\ HasField(structType, bodySentFields)
    /\ c.Body.format = "json" /\ c.Body.doc.j = "obj"

PresenceTable ==
    TableStored =>
        \A ks \in SegmentLists :
            FieldExists(structValue.f[FieldIndex(structType, bodySentFields)], Join(ks))
                <=> HasPath(c.Body.doc, ks)

\* in the table of {"a": {"b": 3, "a": {"b": true}}, "b": "x", "a.b": 3,
\* "ab": [{"a": null}]}, "a.a.b" exists; "a.b.a", "b.a", "ab.a" and "a.ab"
\* do not
PresenceTableWitness ==
    /\ TableStored
    /\ "a.b" \in DOMAIN c.Body.doc.m
    /\ FieldExists(structValue.f[2], <<"a", ".", "a", ".", "b">>)
    /\ FieldExists(structValue.f[2], <<"a", ".", "b">>)
    /\ ~FieldExists(structValue.f[2], <<"a", ".", "b", ".", "a">>)
    /\ ~FieldExists(structValue.f[2], <<"b", ".", "a">>)
    /\ ~FieldExists(structValue.f[2], <<"a", "b", ".", "a">>)
    /\ ~FieldExists(structValue.f[2], <<"a", ".", "a", "b">>)

----------------------------------------------------------------------------
(* C15  Forms through the Body section.  After Bind of a request that is   *)
(* no GET, has the content type application/x-www-form-urlencoded and      *)
(* carries a form, each field of the Body section with a `form` tag that   *)
(* names a key of the form holds the first value of that key.              *)
FormThroughBody ==
    /\ target = "ptrStruct" /\ pc = "done"
    /\ HasField(structType, bodyField) /\ FieldType(structType, bodyField).kind = "struct"
    /\ c.Method # "GET" /\ c.ContentLength # 0 /\ c.ContentType = MIMEApplicationForm
    /\ c.Body = NoBody /\ ~c.FormErr

FormsThroughBody ==
    FormThroughBody =>
        \A i \in 1..Len(FieldType(structType, bodyField).fields) :
            LET ft == FieldType(structType, bodyField).fields[i] IN
            (ft.Form \in DOMAIN c.FormParams /\ ft.Type = TString) =>
                structValue.f[FieldIndex(structType, bodyField)].f[i]
                    = StrV(c.FormParams[ft.Form][1])

----------------------------------------------------------------------------
(* C16  Unrecognized top-level fields are untouched.  While Bind has not   *)
(* handed the record to the default binder, each top-level field that is   *)
(* no section and not the BodySentFields slot holds what it held at the    *)
(* call, whatever keys the request carries, and an error Bind returns is   *)
(* the error of a section or of the validator.                             *)
Unrecognized ==
    {i \in 1..Len(structType.fields) :
        structType.fields[i].Name \notin fieldHandlers \cup {bodySentFields}}

UnrecognizedKept ==
    /\ \A i \in Unrecognized : structValue.f[i] = before.f[i]
    /\ (pc = "done" /\ result.status = "err") =>
          (idx \in Sections \/ result.err = badRequestError(errValidation))

UnrecognizedUntouched ==
    (target = "ptrStruct" /\ result.via # "default") => UnrecognizedKept

\* Bind has filled Query.Id from the key Id and left Other.Id as it was
UnrecognizedUntouchedWitness ==
    /\ target = "ptrStruct" /\ pc = "done" /\ result.status = "ok" /\ result.via = "binder"
    /\ structType = excludedQueryRecord
    /\ "Id" \in DOMAIN c.QueryParams
    /\ structValue.f[2].f[1] # before.f[2].f[1]
    /\ before.f[1] # Zero(structType.fields[1].Type)
    /\ structValue.f[1] = before.f[1]

\* the claim as stated, for every Bind: it does not hold of a Bind that
\* ends in the default binder
UnrecognizedAlwaysUntouched ==
    target = "ptrStruct" => UnrecognizedKept

----------------------------------------------------------------------------
(* C17  Header binding skips empty headers.  A slot of the flattened       *)
(* Header section whose header, looked up by the slot's identifier         *)
(* whatever its case, is absent or empty is not written and gives no       *)
(* error, settable or not: an error of the Header binder comes from a slot *)
(* whose header is not empty.  After a Bind that succeeds, a slot whose    *)
(* header is not empty holds the coercion of the header's value.           *)
HeaderSkipped(fl, r) ==
    fl.status = "ok" =>
        /\ \A id \in DOMAIN fl.fields :
              HeaderGet(c.Header, id) = <<>> =>
                  GetAt(r.v.f[idx], fl.fields[id].path) = GetAt(fl.v, fl.fields[id].path)
        /\ r.status # "panic"
        /\ r.status = "err" =>
              \E id \in DOMAIN fl.fields :
                  /\ HeaderGet(c.Header, id) # <<>>
                  /\ \/ ~fl.fields[id].CanSet
                     \/ Coerced(fl.fields[id].Type, HeaderGet(c.Header, id)).err # NoErr

HeadersBound(fl, sv) ==
    \A id \in DOMAIN fl.fields :
        GetAt(sv, fl.fields[id].path) =
            IF HeaderGet(c.Header, id) = <<>> THEN GetAt(fl.v, fl.fields[id].path)
            ELSE Coerced(fl.fields[id].Type, HeaderGet(c.Header, id)).v

HeaderBinding ==
    /\ (InLoop /\ target = "ptrStruct" /\ typeField.Name = headerField
               /\ typeField.Type.kind = "struct") =>
          \A r \in handler(headerField, c, structType, structValue, idx) :
              HeaderSkipped(getStructFields(typeField.Type, structValue.f[idx], FALSE), r)
    /\ (pc = "done" /\ target = "ptrStruct" /\ result.status = "ok"
                    /\ result.via = "binder") =>
          \A j \in Sections :
              (structType.fields[j].Name = headerField
                  /\ structType.fields[j].Type.kind = "struct") =>
                  HeadersBound(getStructFields(structType.fields[j].Type, before.f[j], FALSE),
                               structValue.f[j])

\* Bind has succeeded with an empty header Name for the field `name`, which
\* cannot be set, and has set Build from the header Custom
HeaderBindingWitness ==
    /\ pc = "done" /\ target = "ptrStruct" /\ result.status = "ok" /\ result.via = "binder"
    /\ structType = unexportedHeaderRecord
    /\ DOMAIN c.Header = {"Name", "Custom"}
    /\ c.Header["Name"] = <<>> /\ c.Header["Custom"] = S3
    /\ structValue.f[1].f[1] = before.f[1].f[1]
    /\ structValue.f[1].f[2] = NumV(FALSE, S3)
    /\ before.f[1].f[2] # NumV(FALSE, S3)

----------------------------------------------------------------------------
(* C18  Single error classification.  Every error Bind itself returns,     *)
(* from the check of its argument, a section binder, the flattener, the    *)
(* coercion, the reading or decoding of the body or the validator, is an   *)
(* *echo.HTTPError of code 400 whose chain of internal errors ends in the  *)
(* error that was raised.                                                  *)
RaisedKinds ==
    {"InvalidType", "InvalidTypeAtLocation", "MissingParam", "NotSettable",
     "UnsupportedMethod", "InvalidAnonymousField", "Coercion", "Decode", "ReadAll",
     "FormParams", "Validation"}

BindFailed == pc = "done" /\ result.status = "err" /\ result.via = "binder"

SingleClassification ==
    BindFailed =>
        /\ result.err.code = 400
        /\ result.err.kind \in RaisedKinds
        /\ result.err.inner \in {<<>>, <<400>>, <<500>>}
        /\ result.err.inner = <<500>> <=> result.err.kind = "ReadAll"

\* the body could not be read: bindBody's error of code 500 is returned
\* inside an error of code 400
SingleClassificationWitness ==
    /\ BindFailed
    /\ result.err.code = 400 /\ result.err.inner = <<500>> /\ result.err.kind = "ReadAll"

----------------------------------------------------------------------------
(* C19  Pointer-embedded sub-records are flattened whether or not they are *)
(* allocated, so that a second Bind of a record succeeds as the first did: *)
(* a Bind of a record that an earlier Bind has left, which is none of the  *)
(* values a caller builds, returns without an error.                       *)
BoundBefore == target = "ptrStruct" /\ before \notin InitialValues(structType, TRUE)

SuccessiveBindsSucceed ==
    (BoundBefore /\ pc = "done") => result.status = "ok"

----------------------------------------------------------------------------
(* C20  Unsupported body content type is a no-op.  For a request that is   *)
(* no GET, has a body that can be read and a content type that is neither  *)
(* JSON nor XML, the Body binder returns no error and leaves the Body      *)
(* section as it was, whatever the record, a record with the               *)
(* BodySentFields slot included.                                           *)
UnsupportedContentType ==
    /\ InLoop /\ target = "ptrStruct" /\ typeField.Name = bodyField
    /\ c.Method # "GET" /\ c.ContentLength # 0
    /\ c.ContentType \notin {MIMEApplicationJSON, MIMEApplicationXML, MIMETextXML}
    /\ c.Body.format # "unreadable"

UnsupportedContentTypeIsNoOp ==
    UnsupportedContentType =>
        \A r \in handler(bodyField, c, structType, structValue, idx) :
            /\ r.status = "ok"
            /\ r.v.f[idx] = structValue.f[idx]

----------------------------------------------------------------------------
(* C21  Errors name the section where they occurred.  When Bind returns    *)
(* the invalid-anonymous-field error or the unsupported-method error of    *)
(* the binder of a section, the error carries the name of that section.    *)
SectionErrorKinds == {"InvalidAnonymousField", "UnsupportedMethod"}

ErrorsNameTheirSection ==
    (BinderFailed /\ pc = "done" /\ result.err.kind \in SectionErrorKinds) =>
        result.err.location = structType.fields[idx].Name

----------------------------------------------------------------------------
(* C22  A wrong-typed sent-fields slot is a schema error.  When the Body   *)
(* section is a record, its payload decodes and the record declares a      *)
(* BodySentFields field of another type than the presence table, the Body  *)
(* binder returns the InvalidTypeAtLocation error of that field and leaves *)
(* the field as it was.                                                    *)
WrongSentFields ==
    /\ InLoop /\ target = "ptrStruct" /\ typeField.Name = bodyField
    /\ typeField.Type.kind = "struct"
    /\ HasField(structType, bodySentFields)
    /\ FieldType(structType, bodySentFields) # TLookup
    /\ c.Method # "GET" /\ c.ContentLength # 0
    /\ c.ContentType = MIMEApplicationJSON /\ c.Body.format = "json" /\ c.Body.doc.j = "obj"

WrongSentFieldsIsSchemaError ==
    WrongSentFields =>
        \A r \in handler(bodyField, c, structType, structValue, idx) :
            /\ r.status = "err"
            /\ r.err = badRequestError(
                           getInvalidTypeAtLocationError(bodySentFields, lookupTypeString))
            /\ r.v.f[FieldIndex(structType, bodySentFields)]
                   = structValue.f[FieldIndex(structType, bodySentFields)]

----------------------------------------------------------------------------
(* C23  A zero-length payload is a no-op success.  When the request is no  *)
(* GET and its content length is zero, the Body binder and the Form binder *)
(* return nil without reading the body or the form, and the record, its    *)
(* Body and Form sections and its BodySentFields field included, is as it  *)
(* was.                                                                    *)
ZeroLength ==
    /\ InLoop /\ target = "ptrStruct" /\ typeField.Name \in {bodyField, formField}
    /\ typeFieldKind = "struct" \/ typeField.Name = bodyField
    /\ c.ContentLength = 0

ZeroLengthIsNoOp ==
    (ZeroLength /\ c.Method # "GET") =>
        handler(typeField.Name, c, structType, structValue, idx)
            = {Outcome("ok", NoErr, structValue)}

\* Bind has succeeded on a record with the BodySentFields field and a POST
\* of length zero whose body cannot be read
ZeroLengthIsNoOpWitness ==
    /\ pc = "done" /\ target = "ptrStruct" /\ result.status = "ok" /\ result.via = "binder"
    /\ structType = bodySentFieldsTester
    /\ log = <<bodyField, "validator">>
    /\ c.ContentLength = 0 /\ c.Method = "POST" /\ c.Body.format = "unreadable"
    /\ structValue = before

\* the claim as stated, for every method: it does not hold of GET
ZeroLengthIsNoOpForEveryMethod ==
    ZeroLength =>
        handler(typeField.Name, c, structType, structValue, idx)
            = {Outcome("ok", NoErr, structValue)}

----------------------------------------------------------------------------
(* C24: the integer coercion is bounded by the slot's width                *)

\* the string handed to the coercion
CoercedString == c.ParamValues[1]

\* an optional minus sign and at least one decimal digit
IsDecimal(s) ==
    LET d == IF s # <<>> /\ Head(s) = "-" THEN Tail(s) ELSE s
    IN  d # <<>> /\ \A i \in 1..Len(d) : \E k \in 1..10 : DigitChars[k] = d[i]

\* the digits of a decimal string without sign and leading zeros
Magnitude(s) ==
    LET d == IF Head(s) = "-" THEN Tail(s) ELSE s
        nz == {i \in 1..Len(d) : d[i] # "0"}
    IN  IF nz = {} THEN <<"0">>
        ELSE SubSeq(d, CHOOSE i \in nz : \A j \in nz : i <= j, Len(d))

\* a <= b for two magnitudes
NotAbove(a, b) ==
    \/ Len(a) < Len(b)
    \/ /\ Len(a) = Len(b)
       /\ \A i \in 1..Len(a) :
             (\A j \in 1..(i - 1) : a[j] = b[j]) => DigitVal(a[i]) <= DigitVal(b[i])

\* 2^(w-1) - 1, 2^(w-1) and 2^w - 1
SignedMax(w) ==
    CASE w = 8 -> <<"1", "2", "7">>
      [] w = 16 -> <<"3", "2", "7", "6", "7">>
      [] w = 32 -> <<"2", "1", "4", "7", "4", "8", "3", "6", "4", "7">>
      [] w = 64 -> <<"9", "2", "2", "3", "3", "7", "2", "0", "3", "6",
                     "8", "5", "4", "7", "7", "5", "8", "0", "7">>
SignedMinMagnitude(w) ==
    CASE w = 8 -> <<"1", "2", "8">>
      [] w = 16 -> <<"3", "2", "7", "6", "8">>
      [] w = 32 -> <<"2", "1", "4", "7", "4", "8", "3", "6", "4", "8">>
      [] w = 64 -> <<"9", "2", "2", "3", "3", "7", "2", "0", "3", "6",
                     "8", "5", "4", "7", "7", "5", "8", "0", "8">>
UnsignedMax(w) ==
    CASE w = 8 -> <<"2", "5", "5">>
      [] w = 16 -> <<"6", "5", "5", "3", "5">>
      [] w = 32 -> <<"4", "2", "9", "4", "9", "6", "7", "2", "9", "5">>
      [] w = 64 -> <<"1", "8", "4", "4", "6", "7", "4", "4", "0", "7",
                     "3", "7", "0", "9", "5", "5", "1", "6", "1", "5">>

\* the number a decimal string writes lies in the range of the type; a
\* string with a minus sign is never in the range of an unsigned type
InRange(T, s) ==
    IF T.kind = "uint" THEN Head(s) # "-" /\ NotAbove(Magnitude(s), UnsignedMax(T.bits))
    ELSE IF Head(s) = "-" THEN NotAbove(Magnitude(s), SignedMinMagnitude(T.bits))
    ELSE NotAbove(Magnitude(s), SignedMax(T.bits))

IntegerSlot ==
    /\ pc = "coerced"
    /\ structType.kind \in {"int", "uint"}
    /\ structType.bits \in {8, 16, 32, 64}

\* C24: coercing a decimal string into a signed or unsigned integer slot
\* of width 8, 16, 32 or 64 succeeds and sets the slot to the number
\* exactly when the number lies in the range of that width; otherwise a
\* coercion error is returned and the slot keeps its previous value; the
\* empty string is coerced as 0.
WidthBoundedCoercion ==
    IntegerSlot =>
        /\ IsDecimal(CoercedString) =>
              IF InRange(structType, CoercedString)
              THEN /\ result.status = "ok"
                   /\ structValue =
                        NumV(Head(CoercedString) = "-" /\ Magnitude(CoercedString) # <<"0">>,
                             Magnitude(CoercedString))
              ELSE /\ result.status = "err"
                   /\ result.err.kind = "Coercion"
                   /\ structValue = before
        /\ CoercedString = <<>> =>
              result.status = "ok" /\ structValue = NumV(FALSE, <<"0">>)

\* an int8 slot holding 7 is handed "128": the call fails and the slot
\* still holds 7
WidthBoundedCoercionWitness ==
    /\ IntegerSlot
    /\ structType = TInt(8)
    /\ CoercedString = <<"1", "2", "8">>
    /\ result.status = "err"
    /\ result.err = errRange
    /\ before = NumV(FALSE, <<"7">>)
    /\ structValue = before

----------------------------------------------------------------------------
(* C25: what a section's source does not name is left alone                *)

RECURSIVE Leaves(_, _)
\* every leaf field below a section type, the excluded ones too, with its
\* identifier, its type and its path
Leaves(T, prefix) ==
    UNION {LET ft == T.fields[i]
               inner == IF ft.Type.kind = "ptr" THEN ft.Type.elem ELSE ft.Type
           IN  IF inner.kind = "struct" THEN Leaves(inner, Append(prefix, i))
               ELSE {[id |-> IF ft.Tag = "" THEN ft.Name ELSE ft.Tag,
                      type |-> ft.Type, path |-> Append(prefix, i)]}
           : i \in 1..Len(T.fields)}

Absent == [k |-> "absent"]

RECURSIVE LeafAt(_, _)
\* the value of the leaf at a path, or Absent when a pointer to a record
\* on the way is nil
LeafAt(v, path) ==
    IF path = <<>> THEN v
    ELSE IF v = Nil THEN Absent
    ELSE LeafAt(Deref(v).f[Head(path)], Tail(path))

\* the source of the section at j supplies the identifier
Supplied(j, id) ==
    CASE structType.fields[j].Name = pathField -> id \in Range(c.ParamNames)
      [] structType.fields[j].Name = queryField -> id \in DOMAIN c.QueryParams
      [] structType.fields[j].Name = formField -> id \in DOMAIN c.FormParams
      [] structType.fields[j].Name = headerField -> HeaderGet(c.Header, id) # <<>>

\* a leaf holds what it held; one that did not exist, below a nil pointer
\* to a record, does not exist or holds the zero value of its type
LeafKept(leaf, old, new) ==
    LET o == LeafAt(old, leaf.path)
        n == LeafAt(new, leaf.path)
    IN  IF o = Absent THEN n \in {Absent, Zero(leaf.type)} ELSE n = o

FrameSections ==
    {j \in Sections : /\ structType.fields[j].Name # bodyField
                      /\ structType.fields[j].Type.kind = "struct"}

\* C25: after a Bind that did not end in echo's default binder, every leaf
\* slot of a Path, Query, Header or Form section whose identifier its
\* source does not supply (no such path parameter, no such query or form
\* key, no non-empty header of that name) has the value it had when Bind
\* was called: a pre-set value is kept and a nil pointer to a primitive
\* stays nil.
SectionFrame ==
    (pc = "done" /\ target = "ptrStruct" /\ result.via # "default") =>
        \A j \in FrameSections :
            \A leaf \in Leaves(structType.fields[j].Type, <<>>) :
                ~Supplied(j, leaf.id) => LeafKept(leaf, before.f[j], structValue.f[j])

\* /users/:Name/:Id bound into a pathNormalTester whose Unused was nil:
\* Name and Id were written and Unused is nil still
SectionFrameWitness ==
    /\ pc = "done" /\ target = "ptrStruct" /\ result.status = "ok"
    /\ structType = pathNormalTester
    /\ c.ParamNames = <<"Name", "Id">>
    /\ before.f[1].f[3] = Nil
    /\ structValue.f[1].f[1] # before.f[1].f[1]
    /\ structValue.f[1].f[2] # before.f[1].f[2]
    /\ structValue.f[1].f[3] = Nil

----------------------------------------------------------------------------
(* C26: a coercion that fails and its slot                                 *)

\* C26: whenever the coercion of a string into a slot returns an error,
\* the slot holds afterwards what it held before the call, whatever its
\* type; a nil pointer to a primitive is nil still.
FailedCoercionKeepsSlot ==
    (pc = "coerced" /\ result.status = "err") => structValue = before

----------------------------------------------------------------------------
(* C27: the flattening comes to an end                                     *)

\* the walk has ended like the recursive definition says
FlattenedAsDefined ==
    (pc = "flattened" /\ structType \notin {Node, listRecord}) =>
        LET fl == getStructFields(structType, before, FALSE)
        IN  /\ result.status = fl.status
            /\ result.err = fl.err
            /\ structValue = fl.v
            /\ result.status = "ok" => log[1].fields = fl.fields

\* C27: getStructFields comes to an end for every section: after finitely
\* many steps the first call has returned a mapping or an error (or has
\* panicked), whatever the section's type, one that holds a record type
\* with a pointer to itself included.
FlatteningTerminates == <>(pc = "flattened")

=============================================================================
